---- MODULE Spec2Model ----
(***************************************************************************)
(* Model of highlight-undo.nvim: the per-buffer command queue, the         *)
(* resource lock, the buffer state store and the highlight command         *)
(* executor, as driven by the Lua key handlers.                            *)
(*                                                                         *)
(* JavaScript runs one task at a time; every `await` is a suspension       *)
(* point.  Each action below is the code that runs between two             *)
(* suspension points of one async function.                                *)
(***************************************************************************)
EXTENDS Integers, Sequences, FiniteSets, TLC

\* ------------------------------------------------------------------ bounds
MaxCmds == 3        \* enqueue calls in one behaviour of the queue
MaxTicks == 2       \* clock advances in one behaviour of the queue
MaxClears == 1      \* clearBuffer/clearAll calls in one behaviour of the queue
TickMs == 3000      \* milliseconds the clock advances in one step
MaxAcq == 3         \* acquire calls in one behaviour of the lock
MaxKeys == 2        \* keystrokes in one behaviour of the key pipeline
HistLen == 1        \* entries of the buffer's undo history
MaxFails == 1       \* editor calls that fail in one behaviour of the key pipeline
MaxText == 2        \* characters of a text handed to the diff optimizer (after its padding)
MaxCalls == 2       \* calculateDiff calls in one behaviour of the optimizer
MaxCacheEntries == 1 \* createDiffOptimizer(maxCacheEntries)
MaxCode == 3        \* characters of a snapshot handed to the range pipeline
MaxBufs == 3        \* buffers the state store is asked about
MaxSnap == 1        \* characters of a snapshot kept in the state store
MaxOps == 4         \* calls made to the state store in one behaviour
MaxCacheSize == 2   \* createBufferStateManager(maxCacheSize)
MaxRanges == 2      \* ranges in a list handed to a range function on its own
MaxLnum == 3        \* lines those ranges lie on
MaxLine == 5        \* characters of the line handed to adjustWordBoundaries
MaxPoints == 3      \* characters of a text handed to the column conversions
MaxMatch == 101     \* characters of the matchText of a range handed to evaluateChangeSize

\* ------------------------------------------------------- program constants
StaleMs == 5000     \* processQueue: Date.now() - command.timestamp > 5000

Bufs == {1, 2}
LockKeys == {"buffer-1", "buffer-2"}

VARIABLES
  \* createCommandQueue
  queues,       \* Map<bufnr, QueuedCommand[]>: bufnr -> array reference, 0 = no entry
  arr,          \* the arrays the map (and the run-loops) refer to
  processing,   \* Map<bufnr, boolean>: "absent" | "true" | "false"
  cmd,          \* every QueuedCommand created so far; Len(cmd) = commandId
  loops,        \* the activations of processQueue
  now,          \* Date.now()
  started,      \* history: the commands in the order their execute() was called
  clearedEver,  \* history: clearBuffer/clearAll was called for the buffer
  clears,       \* history: the number of clearBuffer/clearAll calls
  \* createLockManager
  locks,        \* Map<string, Promise<void>>: key -> promise reference, 0 = no entry
  resolved,     \* the lock promises that have been resolved
  acq,          \* the acquire calls made so far
  \* the editor, the buffer state store, the Lua handlers and the executor
  keys,         \* the keystrokes so far: their Lua, preExec, exec and execute() activations
  pos,          \* the editor: position of the buffer in its undo history, 0..HistLen
  kinds,        \* the editor: what redoing each history entry does to the text
  store,        \* bufferStates: the snapshot pair stored for the buffer, or NoPair
  consumed,     \* history: the pairs prepareState retrieved, and for which keystroke
  gHasRemovals, \* the editor: g:highlight_undo_has_removals
  enabled,      \* config.enabled
  nfails,       \* history: the number of editor calls that have failed
  \* createDiffOptimizer and the range pipeline
  cache,        \* Map<string, DiffResult>: the set of <<key, before, after, result>> entries
  lastCall,     \* the last calculateDiff call made: its arguments and result
  pipe,         \* the range pipeline: its stage, the snapshots, the diff and the ranges
  \* createBufferStateManager
  buffers,          \* Map<number, BufferData>: the entries in insertion order
  currentCacheSize, \* the running total of the entries' sizes
  clock,            \* Date.now() at the last call to the store
  lastOp,           \* the last call made to the store: its arguments and outcome
  \* the range functions called on their own
  probe         \* the last call: the function, its arguments and what it returned

qvars == <<queues, arr, processing, cmd, loops, now, started, clearedEver, clears>>
lvars == <<locks, resolved, acq>>
kvars == <<keys, pos, kinds, store, consumed, gHasRemovals, enabled, nfails>>
bvars == <<buffers, currentCacheSize, clock, lastOp>>
fvars == <<cache, lastCall, pipe, bvars, probe>>
vars == <<qvars, lvars, kvars, fvars>>

\* ======================================================== command queue ==

\* The queue's mutable state as one value, so that the synchronous part of
\* processQueue can be computed by a function.
QS ==
  [queues |-> queues, arr |-> arr, processing |-> processing,
   cmd |-> cmd, loops |-> loops, started |-> started]

SetQ(s) ==
  /\ queues' = s.queues
  /\ arr' = s.arr
  /\ processing' = s.processing
  /\ cmd' = s.cmd
  /\ loops' = s.loops
  /\ started' = s.started

\* processing.get(bufnr) as a truth value (undefined is falsy)
IsProcessingMut(s, b) == FALSE
IsProcessing(s, b) == s.processing[b] = "true"

\* Date.now() - command.timestamp > 5000
IsStaleMut(c, s) == FALSE
IsStale(c, s) == now - s.cmd[c].timestamp > StaleMs

RECURSIVE Drain(_, _)
RECURSIVE ProcessQueue(_, _, _)

\* processQueue from the top of its while loop up to the next await (the
\* call of command.execute()) or up to its return.  l is the activation.
Drain(s, l) ==
  LET b == s.loops[l].buf
      q == s.loops[l].q
      a == IF q = 0 THEN <<>> ELSE s.arr[q]
  IN IF a # <<>>
     THEN LET c == Head(a)
              s1 == [s EXCEPT !.arr[q] = Tail(a),
                              !.cmd[c].dequeuedAt = now,
                              !.cmd[c].dequeuedBy = l]
          IN IF IsStale(c, s)
             THEN Drain([s1 EXCEPT !.cmd[c].status = "skipped"], l)
             ELSE [s1 EXCEPT !.cmd[c].status = "running",
                             !.loops[l].pc = "awaitCmd",
                             !.loops[l].cmd = c,
                             !.started = Append(@, c)]
     ELSE \* finally
          LET s1 == [s EXCEPT !.processing[b] = "false", !.loops[l].cmd = 0]
              q2 == s1.queues[b]
          IN IF q2 # 0 /\ s1.arr[q2] # <<>>
             THEN ProcessQueue([s1 EXCEPT !.loops[l].pc = "awaitChild"], b, l)
             ELSE [s1 EXCEPT !.loops[l].pc = "done"]

\* processQueue(bufnr) called by enqueue (caller = 0) or by the finally
\* block of activation `caller`.
ProcessQueue(s, b, caller) ==
  IF IsProcessing(s, b)
  THEN s
  ELSE LET l == Len(s.loops) + 1
           s1 == [s EXCEPT
                    !.processing[b] = "true",
                    !.loops = Append(@, [buf |-> b, q |-> s.queues[b], pc |-> "run",
                                         cmd |-> 0, child |-> 0])]
           s2 == IF caller = 0 THEN s1 ELSE [s1 EXCEPT !.loops[caller].child = l]
       IN Drain(s2, l)

\* enqueue that starts a run-loop only for a buffer that had no queue yet
EnqueueOpMut(s, b, key) ==
  LET c == Len(s.cmd) + 1
      qc == [bufnr |-> b, timestamp |-> now, status |-> "queued", key |-> key,
             loop |-> 0, pendingAtClear |-> FALSE,
             dequeuedAt |-> -1, dequeuedBy |-> 0]
      s1 == [s EXCEPT !.cmd = Append(@, qc)]
      s2 == IF s1.queues[b] = 0
            THEN [s1 EXCEPT !.arr = Append(@, <<c>>), !.queues[b] = Len(s1.arr) + 1]
            ELSE [s1 EXCEPT !.arr[s1.queues[b]] = Append(@, c)]
  IN IF s1.queues[b] = 0
     THEN ProcessQueue([s2 EXCEPT !.cmd[c].loop = Len(s2.loops) + 1], b, 0)
     ELSE s2

\* enqueue(bufnr, command) up to its await.  key is the keystroke the
\* action belongs to (0: an action of no keystroke).
EnqueueOp(s, b, key) ==
  LET c == Len(s.cmd) + 1
      qc == [bufnr |-> b, timestamp |-> now, status |-> "queued", key |-> key,
             loop |-> 0, pendingAtClear |-> FALSE,
             dequeuedAt |-> -1, dequeuedBy |-> 0]
      s1 == [s EXCEPT !.cmd = Append(@, qc)]
      s2 == IF s1.queues[b] = 0
            THEN [s1 EXCEPT !.arr = Append(@, <<c>>), !.queues[b] = Len(s1.arr) + 1]
            ELSE [s1 EXCEPT !.arr[s1.queues[b]] = Append(@, c)]
  IN IF ~IsProcessing(s2, b)
     THEN ProcessQueue([s2 EXCEPT !.cmd[c].loop = Len(s2.loops) + 1], b, 0)
     ELSE s2

Enqueue(b) ==
  /\ Len(cmd) < MaxCmds
  /\ SetQ(EnqueueOp(QS, b, 0))
  /\ UNCHANGED <<now, clearedEver, clears>>
  /\ UNCHANGED <<lvars, kvars, fvars>>

\* The action of command c (one that belongs to no keystroke) settles:
\* its promise fulfils (ok) or rejects.
Settle(c, ok) ==
  /\ cmd[c].status = "running"
  /\ cmd[c].key = 0
  /\ cmd' = [cmd EXCEPT ![c].status = IF ok THEN "done" ELSE "failed"]
  /\ UNCHANGED <<queues, arr, processing, loops, now, started, clearedEver, clears>>
  /\ UNCHANGED <<lvars, kvars, fvars>>

\* processQueue after `await command.execute()`: a rejection is caught and
\* logged inside the while loop, which goes on either way
AfterExecuteMut(s, l) ==
  IF s.cmd[s.loops[l].cmd].status = "failed"
  THEN [s EXCEPT !.processing[s.loops[l].buf] = "false", !.loops[l].pc = "done"]
  ELSE Drain(s, l)
AfterExecute(s, l) == Drain(s, l)

\* processQueue continues after `await command.execute()` (try/catch).
Resume(l) ==
  /\ loops[l].pc = "awaitCmd"
  /\ cmd[loops[l].cmd].status \in {"done", "failed"}
  /\ SetQ(AfterExecute(QS, l))
  /\ UNCHANGED <<now, clearedEver, clears>>
  /\ UNCHANGED <<lvars, kvars, fvars>>

\* processQueue returns after `await processQueue(bufnr)` in its finally.
LoopReturn(l) ==
  /\ loops[l].pc = "awaitChild"
  /\ loops[l].child = 0 \/ loops[loops[l].child].pc = "done"
  /\ loops' = [loops EXCEPT ![l].pc = "done"]
  /\ UNCHANGED <<queues, arr, processing, cmd, now, started, clearedEver, clears>>
  /\ UNCHANGED <<lvars, kvars, fvars>>

\* history: the commands of buffer b that are enqueued and not yet dequeued
MarkPending(cs, bs) ==
  [c \in DOMAIN cs |->
     IF cs[c].bufnr \in bs /\ cs[c].status = "queued"
     THEN [cs[c] EXCEPT !.pendingAtClear = TRUE]
     ELSE cs[c]]

\* clearBuffer(bufnr): queues.delete(bufnr); processing.delete(bufnr)
ClearBufferOpMut(s, b) ==
  [s EXCEPT !.queues[b] = 0, !.processing[b] = "absent",
            !.arr = [i \in DOMAIN s.arr |-> IF i = s.queues[b] THEN <<>> ELSE s.arr[i]]]
ClearBufferOp(s, b) ==
  [s EXCEPT !.queues[b] = 0, !.processing[b] = "absent"]

ClearBuffer(b) ==
  /\ clears < MaxClears
  /\ SetQ(ClearBufferOp([QS EXCEPT !.cmd = MarkPending(cmd, {b})], b))
  /\ clearedEver' = [clearedEver EXCEPT ![b] = TRUE]
  /\ clears' = clears + 1
  /\ UNCHANGED now
  /\ UNCHANGED <<lvars, kvars, fvars>>

\* clearAll(): queues.clear(); processing.clear()
ClearAllOp(s) ==
  [s EXCEPT !.queues = [b \in Bufs |-> 0], !.processing = [b \in Bufs |-> "absent"]]

ClearAll ==
  /\ clears < MaxClears
  /\ SetQ(ClearAllOp([QS EXCEPT !.cmd = MarkPending(cmd, Bufs)]))
  /\ clearedEver' = [b \in Bufs |-> TRUE]
  /\ clears' = clears + 1
  /\ UNCHANGED now
  /\ UNCHANGED <<lvars, kvars, fvars>>

\* Time passes.  The clock is only ever compared with the timestamps of
\* commands waiting in a queue, so its advance is observable only while one
\* is waiting.
Tick ==
  /\ now < MaxTicks * TickMs
  /\ \E c \in DOMAIN cmd : cmd[c].status = "queued"
  /\ now' = now + TickMs
  /\ UNCHANGED <<queues, arr, processing, cmd, loops, started, clearedEver, clears>>
  /\ UNCHANGED <<lvars, kvars, fvars>>

InitQ ==
  /\ queues = [b \in Bufs |-> 0]
  /\ arr = <<>>
  /\ processing = [b \in Bufs |-> "absent"]
  /\ cmd = <<>>
  /\ loops = <<>>
  /\ now = 0
  /\ started = <<>>
  /\ clearedEver = [b \in Bufs |-> FALSE]
  /\ clears = 0

\* ======================================================== resource lock ==

\* locks.get(resource): the map is keyed by the resource
ExistingLockMut(ls, k) ==
  LET held == {j \in LockKeys : ls.locks[j] # 0}
  IN IF held = {} THEN 0 ELSE ls.locks[CHOOSE j \in held : TRUE]
ExistingLock(ls, k) == ls.locks[k]

\* acquire(resource, fn) up to its first await: either `await existingLock`
\* or, when the map has no entry, the call of fn().  The lock promise of
\* acquire call a is named a.  owner is the keystroke whose preExec made the
\* call (0: a call of no keystroke).
AcquireOp(ls, k, owner) ==
  LET a == Len(ls.acq) + 1
      existingLock == ExistingLock(ls, k)
  IN IF existingLock # 0
     THEN [ls EXCEPT !.acq = Append(@, [key |-> k, pc |-> "waiting",
                                         waitOn |-> existingLock, owner |-> owner,
                                         threw |-> FALSE])]
     ELSE [ls EXCEPT !.acq = Append(@, [key |-> k, pc |-> "running",
                                         waitOn |-> 0, owner |-> owner,
                                         threw |-> FALSE]),
                     !.locks[k] = a]

\* acquire without its finally: the promise stays pending when fn() threw
ReleaseOpMut(ls, a) ==
  LET k == ls.acq[a].key
  IN [ls EXCEPT !.resolved = IF ls.acq[a].threw THEN @ ELSE @ \cup {a},
                !.locks[k] = IF @ = a THEN 0 ELSE @,
                !.acq[a].pc = "done"]
\* the finally block of acquire: releaseLock(); delete the entry if it is
\* still this call's promise
ReleaseOp(ls, a) ==
  LET k == ls.acq[a].key
  IN [ls EXCEPT !.resolved = @ \cup {a},
                !.locks[k] = IF @ = a THEN 0 ELSE @,
                !.acq[a].pc = "done"]

LS == [locks |-> locks, resolved |-> resolved, acq |-> acq]

SetL(ls) ==
  /\ locks' = ls.locks
  /\ resolved' = ls.resolved
  /\ acq' = ls.acq

Acquire(k) ==
  /\ Len(acq) < MaxAcq
  /\ SetL(AcquireOp(LS, k, 0))
  /\ UNCHANGED <<qvars, kvars, fvars>>

\* acquire continues after `await existingLock`: it installs its own promise
\* and calls fn(), without looking at the map again
Wake(a) ==
  /\ acq[a].pc = "waiting"
  /\ acq[a].waitOn \in resolved
  /\ locks' = [locks EXCEPT ![acq[a].key] = a]
  /\ acq' = [acq EXCEPT ![a].pc = "running"]
  /\ UNCHANGED resolved
  /\ UNCHANGED <<qvars, kvars, fvars>>

\* fn() of acquire call a (one of no keystroke) settles: its promise fulfils
\* (ok) or rejects
FnSettle(a, ok) ==
  /\ acq[a].pc = "running"
  /\ acq[a].owner = 0
  /\ acq' = [acq EXCEPT ![a].pc = "settled", ![a].threw = ~ok]
  /\ UNCHANGED <<locks, resolved>>
  /\ UNCHANGED <<qvars, kvars, fvars>>

Release(a) ==
  /\ acq[a].pc = "settled"
  /\ SetL(ReleaseOp(LS, a))
  /\ UNCHANGED <<qvars, kvars, fvars>>

\* isLocked(resource), getLockedResources(): the keys of the map
IsLocked(ls, k) == ls.locks[k] # 0
GetLockedResources(ls) == {k \in LockKeys : ls.locks[k] # 0}

InitL ==
  /\ locks = [k \in LockKeys |-> 0]
  /\ resolved = {}
  /\ acq = <<>>

\* ============================================= editor, store, pipeline ==

KBuf == 1               \* fn.bufnr(denops, "%"): the buffer the keys are typed in
KLock == "buffer-1"     \* `buffer-${bufnr}`
Commands == {"undo", "redo"}
EditKinds == {"ins", "del", "repl", "big"}
NoPair == [pre |-> -1, post |-> -1, by |-> 0]

CounterOf(command) == IF command = "undo" THEN "redo" ELSE "undo"

\* The editor executes `undo` or `redo`: a step in the undo history, or
\* nothing when there is no such step.
EditorCmd(p, command) ==
  IF command = "undo"
  THEN (IF p > 0 THEN p - 1 ELSE p)
  ELSE (IF p < HistLen THEN p + 1 ELSE p)

\* executeCondition / checkPreconditions on fn.undotree(): entries is empty
\* for an empty history, some entry has curhead once something is undone,
\* entries[0] has it when everything is undone.
Precondition(p, command) ==
  ~ \/ HistLen = 0
    \/ (command = "redo" /\ p = HistLen)
    \/ (command = "undo" /\ p = 0)

\* The buffer text at history position p is named p.  The history entries
\* between two texts, and what each does on the way from a to b.
Between(a, b) ==
  {e \in 1..HistLen : (a < e /\ e <= b) \/ (b < e /\ e <= a)}

Effect(e, a, b) ==
  IF a < b THEN kinds[e]
  ELSE CASE kinds[e] = "ins" -> "del"
         [] kinds[e] = "del" -> "ins"
         [] OTHER -> kinds[e]

\* diffOptimizer.calculateDiff(preCode, postCode, threshold) returns null:
\* identical texts, or a change over the threshold
DiffIsNull(pr) ==
  \/ pr.pre = pr.post
  \/ \E e \in Between(pr.pre, pr.post) : kinds[e] = "big"

\* diffResult.changes.some((c) => c.removed) / .some((c) => c.added)
HasRemovals(pr) ==
  \E e \in Between(pr.pre, pr.post) : Effect(e, pr.pre, pr.post) \in {"del", "repl"}
HasAdditions(pr) ==
  \E e \in Between(pr.pre, pr.post) : Effect(e, pr.pre, pr.post) \in {"ins", "repl"}

\* Lua: `local has_removals = vim.g.highlight_undo_has_removals or false`
\* followed by `if has_removals then`.  The variable is unset ("nil") or one
\* of the numbers 0 and 1 (written "0" and "1" here); in Lua only nil and
\* false are falsy.
LuaTruthyMut(v) == v = "1"
LuaTruthy(v) == v # "nil"

NewKey(command) ==
  [command |-> command,
   lua |-> "pre",        \* M.undo / M.redo: "pre" | "exec" | "done"
   pre |-> "bufnr",      \* preExecWithCheck: the call it awaits
   ex |-> "none",        \* exec: "none" | "bufnr" | "enqueued" | "rejected"
   sync |-> FALSE,       \* exec was called with request (TRUE) or notify
   a |-> 0,              \* the acquire call of preExecWithCheck
   cur |-> -1,           \* currentCode
   aft |-> -1,           \* afterCode
   hasRem |-> FALSE,     \* hasRemovals of preExecWithCheck
   stored |-> FALSE,     \* history: bufferStates.set was called
   evicted |-> FALSE,    \* history: that call evicted the pair it had stored
   c |-> 0,              \* the queued command of exec
   xpc |-> "idle",       \* execute(): the call it awaits
   st |-> NoPair,        \* execute(): state
   htype |-> "none",     \* highlight(): changeType
   todo |-> <<>>,        \* applyHighlights: the highlight() calls after this one
   filled |-> FALSE,     \* fillRangeGaps returned at least one range
   flow |-> "none",      \* history: the branch execute() took
   log |-> <<>>,         \* history: the calls execute() made on its collaborators
   fails |-> {}]         \* history: the phases in which an editor call failed

CanFail == nfails < MaxFails
Count(ok) == nfails' = IF ok THEN nfails ELSE nfails + 1

\* preExecWithCheck rejects; denops#request raises the error in the editor
\* and the Lua handler ends there.
PreReject(kr, phase) ==
  [kr EXCEPT !.pre = "rejected", !.lua = "done", !.fails = @ \cup {phase}]

\* A key mapped to M.undo / M.redo is typed.  The editor runs one Lua
\* handler at a time.  The handler calls request('preExecWithCheck'), which
\* starts with `await fn.bufnr(denops, "%")`.
KeyPress(command) ==
  /\ Len(keys) < MaxKeys
  /\ \A k \in DOMAIN keys : keys[k].lua = "done"
  /\ keys' = Append(keys, NewKey(command))
  /\ UNCHANGED <<qvars, lvars, pos, kinds, fvars, store, consumed, gHasRemovals, enabled, nfails>>

\* preExecWithCheck after fn.bufnr: lockManager.acquire up to its first await
PreBufnr(k, ok) ==
  /\ keys[k].pre = "bufnr"
  /\ ok \/ CanFail
  /\ IF ok
     THEN LET ls == AcquireOp(LS, KLock, k)
              a == Len(acq) + 1
          IN /\ SetL(ls)
             /\ keys' = [keys EXCEPT ![k].a = a,
                           ![k].pre = IF ls.acq[a].pc = "running" THEN "cond" ELSE "lockwait"]
     ELSE /\ keys' = [keys EXCEPT ![k] = PreReject(@, "bufnr")]
          /\ UNCHANGED lvars
  /\ Count(ok)
  /\ UNCHANGED <<qvars, pos, kinds, fvars, store, consumed, gHasRemovals, enabled>>

\* after `await executeCondition(...)` under the lock
PreCond(k, ok) ==
  /\ keys[k].pre = "cond"
  /\ ok \/ CanFail
  /\ IF ~ok
     THEN /\ keys' = [keys EXCEPT ![k] = PreReject(@, "precond")]
          /\ SetL(ReleaseOp(LS, keys[k].a))
     ELSE IF Precondition(pos, keys[k].command)
     THEN /\ keys' = [keys EXCEPT ![k].pre = "get1"]
          /\ UNCHANGED lvars
     ELSE /\ keys' = [keys EXCEPT ![k].pre = "setvar"]
          /\ SetL(ReleaseOp(LS, keys[k].a))
  /\ Count(ok)
  /\ UNCHANGED <<qvars, pos, kinds, fvars, store, consumed, gHasRemovals, enabled>>

\* getPreCodeAndPostCode: currentCode = await fn.getline(...)
PreGet1(k, ok) ==
  /\ keys[k].pre = "get1"
  /\ ok \/ CanFail
  /\ IF ok
     THEN /\ keys' = [keys EXCEPT ![k].cur = pos, ![k].pre = "cmd"]
          /\ UNCHANGED lvars
     ELSE /\ keys' = [keys EXCEPT ![k] = PreReject(@, "capture")]
          /\ SetL(ReleaseOp(LS, keys[k].a))
  /\ Count(ok)
  /\ UNCHANGED <<qvars, pos, kinds, fvars, store, consumed, gHasRemovals, enabled>>

\* getPreCodeAndPostCode: await denops.cmd(`silent ${command}`)
PreCmd(k, ok) ==
  /\ keys[k].pre = "cmd"
  /\ ok \/ CanFail
  /\ IF ok
     THEN /\ keys' = [keys EXCEPT ![k].pre = "get2"]
          /\ pos' = EditorCmd(pos, keys[k].command)
          /\ UNCHANGED lvars
     ELSE /\ keys' = [keys EXCEPT ![k] = PreReject(@, "capture")]
          /\ SetL(ReleaseOp(LS, keys[k].a))
          /\ UNCHANGED pos
  /\ Count(ok)
  /\ UNCHANGED <<qvars, kinds, fvars, store, consumed, gHasRemovals, enabled>>

\* getPreCodeAndPostCode: afterCode = await fn.getline(...)
PreGet2(k, ok) ==
  /\ keys[k].pre = "get2"
  /\ ok \/ CanFail
  /\ IF ok
     THEN /\ keys' = [keys EXCEPT ![k].aft = pos, ![k].pre = "counter"]
          /\ UNCHANGED lvars
     ELSE /\ keys' = [keys EXCEPT ![k] = PreReject(@, "capture")]
          /\ SetL(ReleaseOp(LS, keys[k].a))
  /\ Count(ok)
  /\ UNCHANGED <<qvars, pos, kinds, fvars, store, consumed, gHasRemovals, enabled>>

\* bufferStates.set for the only buffer in use: the entry is kept when the
\* two texts together fit in maxCacheSize (fits); otherwise evictOldEntries
\* removes entries, this one included, until the size is below the limit.
StoreSet(pr, fits) == IF fits THEN pr ELSE NoPair

\* getPreCodeAndPostCode: await denops.cmd(`silent ${counterCommand}`), then
\* bufferStates.set; preExecWithCheck then reads the pair back, computes
\* hasRemovals and leaves the lock.
PreCounter(k, ok, fits) ==
  /\ keys[k].pre = "counter"
  /\ ok \/ CanFail
  /\ IF ok
     THEN LET pr == [pre |-> keys[k].cur, post |-> keys[k].aft, by |-> k]
              state == StoreSet(pr, fits)
          IN /\ pos' = EditorCmd(pos, CounterOf(keys[k].command))
             /\ store' = state
             /\ keys' = [keys EXCEPT ![k].pre = "setvar", ![k].stored = TRUE,
                           ![k].evicted = (state = NoPair),
                           ![k].hasRem = state # NoPair /\ ~DiffIsNull(state) /\ HasRemovals(state)]
     ELSE /\ keys' = [keys EXCEPT ![k] = PreReject(@, "capture")]
          /\ UNCHANGED <<pos, store>>
  /\ SetL(ReleaseOp(LS, keys[k].a))
  /\ Count(ok)
  /\ UNCHANGED <<qvars, kinds, fvars, consumed, gHasRemovals, enabled>>

\* preExecWithCheck: await denops.cmd(`let g:highlight_undo_has_removals =
\* ...`).  The request returns and the Lua handler calls exec, with request
\* or with notify; exec starts with `await fn.bufnr(denops, "%")`.
PreSetVar(k, ok) ==
  /\ keys[k].pre = "setvar"
  /\ ok \/ CanFail
  /\ IF ok
     THEN LET g == IF keys[k].hasRem THEN "1" ELSE "0"
          IN /\ gHasRemovals' = g
             /\ keys' = [keys EXCEPT ![k].pre = "resolved", ![k].ex = "bufnr",
                           ![k].sync = LuaTruthy(g),
                           ![k].lua = IF LuaTruthy(g) THEN "exec" ELSE "done"]
     ELSE /\ keys' = [keys EXCEPT ![k] = PreReject(@, "setvar")]
          /\ UNCHANGED gHasRemovals
  /\ Count(ok)
  /\ UNCHANGED <<qvars, lvars, pos, kinds, fvars, store, consumed, enabled>>

\* exec after fn.bufnr: commandQueue.enqueue up to its await.  The action it
\* queues is execute(), which starts with `await checkPreconditions(...)`.
ExecBufnr(k, ok) ==
  /\ keys[k].ex = "bufnr"
  /\ ok \/ CanFail
  /\ IF ok
     THEN /\ SetQ(EnqueueOp(QS, KBuf, k))
          /\ keys' = [keys EXCEPT ![k].ex = "enqueued", ![k].c = Len(cmd) + 1,
                        ![k].xpc = "pre"]
     ELSE /\ keys' = [keys EXCEPT ![k].ex = "rejected", ![k].lua = "done",
                        ![k].fails = @ \cup {"bufnr"}]
          /\ UNCHANGED <<queues, arr, processing, cmd, loops, started>>
  /\ Count(ok)
  /\ UNCHANGED <<now, clearedEver, clears, lvars, pos, kinds, fvars, store, consumed,
                 gHasRemovals, enabled>>

\* the promise of enqueue: resolved at once when a run-loop was active,
\* otherwise when the processQueue call of enqueue has returned
EnqueueResolved(c) ==
  cmd[c].loop = 0 \/ loops[cmd[c].loop].pc = "done"

\* request('exec') returns to the Lua handler
LuaExecReturn(k) ==
  /\ keys[k].lua = "exec"
  /\ keys[k].ex = "enqueued"
  /\ EnqueueResolved(keys[k].c)
  /\ keys' = [keys EXCEPT ![k].lua = "done"]
  /\ UNCHANGED <<qvars, lvars, pos, kinds, fvars, store, consumed, gHasRemovals, enabled, nfails>>

\* ------------------------------------------------------------ execute() --

\* the queued action of key k is the one its run-loop awaits
Executes(k) ==
  /\ keys[k].c # 0
  /\ cmd[keys[k].c].status = "running"

\* execute() resolves (ok) or rejects
Finish(k, kr, ok) ==
  /\ keys' = [keys EXCEPT ![k] = [kr EXCEPT !.xpc = "done"]]
  /\ cmd' = [cmd EXCEPT ![keys[k].c].status = IF ok THEN "done" ELSE "failed"]

Logged(kr, call, ok, phase) ==
  [kr EXCEPT !.log = Append(@, call),
             !.fails = IF ok THEN @ ELSE @ \cup {phase}]

\* prepareState: bufferStates.get, then bufferStates.clear when there is a pair
PrepareStateStoreMut(st) == st
PrepareStateStore(st) == NoPair

\* execute(): the branch taken for the pair st.  With removals the command
\* is delayed (applyHighlightsWithDelayedCommand, which only issues the
\* command when removals are switched off or no range is left).
FlowOfMut(st, filled) ==
  IF DiffIsNull(st) THEN "noDiff" ELSE "additions"
FlowOf(st, filled) ==
  IF DiffIsNull(st) THEN "noDiff"
  ELSE IF HasRemovals(st)
  THEN (IF enabled.removed /\ filled THEN "removal" ELSE "removalOff")
  ELSE "additions"

\* After `await checkPreconditions(...)`, which is outside the try block:
\* prepareState, calculateDiff and the choice of the flow, up to the first
\* call the flow awaits.  filled: fillRangeGaps leaves at least one range.
ExPre(k, ok, filled) ==
  /\ Executes(k)
  /\ keys[k].xpc = "pre"
  /\ ok \/ CanFail
  /\ IF ~ok
     THEN /\ Finish(k, [keys[k] EXCEPT !.fails = @ \cup {"precond"}, !.flow = "rejected"], FALSE)
          /\ UNCHANGED <<store, consumed>>
     ELSE IF ~Precondition(pos, keys[k].command)
     THEN /\ Finish(k, [keys[k] EXCEPT !.flow = "noPre"], TRUE)
          /\ UNCHANGED <<store, consumed>>
     ELSE IF store = NoPair
     THEN /\ keys' = [keys EXCEPT ![k].flow = "noState", ![k].xpc = "cmdOnly"]
          /\ UNCHANGED <<cmd, store, consumed>>
     ELSE LET st == store
              flow == FlowOf(st, filled)
              xpc == CASE flow = "removal" -> "rApply"
                       [] flow = "additions" -> "aCmd"
                       [] OTHER -> "cmdOnly"
          IN /\ store' = PrepareStateStore(st)
             /\ consumed' = Append(consumed, [pair |-> st, by |-> k])
             /\ keys' = [keys EXCEPT ![k].st = st, ![k].flow = flow, ![k].xpc = xpc,
                           ![k].filled = filled]
             /\ UNCHANGED cmd
  /\ Count(ok)
  /\ UNCHANGED <<queues, arr, processing, loops, now, started, clearedEver, clears,
                 lvars, pos, kinds, fvars, gHasRemovals, enabled>>

\* the calls of the branches that issue the command without highlighting
RawCommandMut(kr, ok) == Logged(Logged(kr, "cmd", ok, "cmd"), "clear", TRUE, "clear")
RawCommand(kr, ok) == Logged(kr, "cmd", ok, "cmd")

\* `await denops.cmd(command)` of executeWithoutHighlight, of the null-diff
\* branch and of the two else branches of applyHighlightsWithDelayedCommand
ExCmdOnly(k, ok) ==
  /\ Executes(k)
  /\ keys[k].xpc = "cmdOnly"
  /\ ok \/ CanFail
  /\ Finish(k, RawCommand(keys[k], ok), TRUE)
  /\ pos' = IF ok THEN EditorCmd(pos, keys[k].command) ELSE pos
  /\ Count(ok)
  /\ UNCHANGED <<queues, arr, processing, loops, now, started, clearedEver, clears,
                 lvars, kinds, fvars, store, consumed, gHasRemovals, enabled>>

\* applyHighlightsWithDelayedCommand: applyHighlightWithoutClear, which
\* hands its own failures to the error handler
ExRApply(k, ok) ==
  /\ Executes(k)
  /\ keys[k].xpc = "rApply"
  /\ ok \/ CanFail
  /\ keys' = [keys EXCEPT ![k] = [Logged(@, "applyRemoved", ok, "apply") EXCEPT !.xpc = "rWait"]]
  /\ Count(ok)
  /\ UNCHANGED <<qvars, lvars, pos, kinds, fvars, store, consumed, gHasRemovals, enabled>>

\* applyHighlightsWithDelayedCommand: setTimeout(resolve, duration) fired
ExRWait(k) ==
  /\ Executes(k)
  /\ keys[k].xpc = "rWait"
  /\ keys' = [keys EXCEPT ![k].log = Append(@, "wait"), ![k].xpc = "rCmd"]
  /\ UNCHANGED <<qvars, lvars, pos, kinds, fvars, store, consumed, gHasRemovals, enabled, nfails>>

\* applyHighlightsWithDelayedCommand: await denops.cmd(command) in the inner
\* try; a failure is thrown on to the catch of execute()
ExRCmd(k, ok) ==
  /\ Executes(k)
  /\ keys[k].xpc = "rCmd"
  /\ ok \/ CanFail
  /\ IF ok
     THEN /\ keys' = [keys EXCEPT ![k] = [Logged(@, "cmd", TRUE, "cmd") EXCEPT !.xpc = "rClear"]]
          /\ pos' = EditorCmd(pos, keys[k].command)
          /\ UNCHANGED cmd
     ELSE /\ Finish(k, Logged(keys[k], "cmd", FALSE, "cmd"), TRUE)
          /\ UNCHANGED pos
  /\ Count(ok)
  /\ UNCHANGED <<queues, arr, processing, loops, now, started, clearedEver, clears,
                 lvars, kinds, fvars, store, consumed, gHasRemovals, enabled>>

\* applyHighlightsWithDelayedCommand highlights removals only: no
\* highlight() call follows its clearHighlights
RemovalFlowRestMut(kr) ==
  IF HasAdditions(kr.st) /\ enabled.added /\ kr.filled THEN <<"added">> ELSE <<>>
RemovalFlowRest(kr) == <<>>

\* applyHighlightsWithDelayedCommand: await clearHighlights(...) in the
\* inner try; a failure is thrown on to the catch of execute()
ExRClear(k, ok) ==
  /\ Executes(k)
  /\ keys[k].xpc = "rClear"
  /\ ok \/ CanFail
  /\ LET kr == Logged(keys[k], "clear", ok, "clear")
         todo == RemovalFlowRest(kr)
     IN IF ok /\ todo # <<>>
        THEN /\ keys' = [keys EXCEPT ![k] = [kr EXCEPT !.xpc = "hApply", !.htype = Head(todo),
                                                       !.todo = Tail(todo)]]
             /\ UNCHANGED cmd
        ELSE Finish(k, kr, TRUE)
  /\ Count(ok)
  /\ UNCHANGED <<queues, arr, processing, loops, now, started, clearedEver, clears,
                 lvars, pos, kinds, fvars, store, consumed, gHasRemovals, enabled>>

\* applyHighlights: the highlight() calls still to make, in order.  Each
\* returns at once for an empty list of ranges.
HighlightsToDo(kr) ==
  (IF HasAdditions(kr.st) /\ enabled.added /\ kr.filled THEN <<"added">> ELSE <<>>)
  \o (IF HasRemovals(kr.st) /\ enabled.removed /\ kr.filled THEN <<"removed">> ELSE <<>>)

\* execute(): `await denops.cmd(command)` of the additions-only branch, then
\* applyHighlights up to its first await
ExACmd(k, ok) ==
  /\ Executes(k)
  /\ keys[k].xpc = "aCmd"
  /\ ok \/ CanFail
  /\ LET kr == Logged(keys[k], "cmd", ok, "cmd")
         todo == HighlightsToDo(kr)
     IN IF ok /\ todo # <<>>
        THEN /\ keys' = [keys EXCEPT ![k] = [kr EXCEPT !.xpc = "hApply", !.htype = Head(todo),
                                                       !.todo = Tail(todo)]]
             /\ UNCHANGED cmd
        ELSE Finish(k, kr, TRUE)
  /\ pos' = IF ok THEN EditorCmd(pos, keys[k].command) ELSE pos
  /\ Count(ok)
  /\ UNCHANGED <<queues, arr, processing, loops, now, started, clearedEver, clears,
                 lvars, kinds, fvars, store, consumed, gHasRemovals, enabled>>

\* highlight(): applyHighlightWithoutClear returned
HighlightAfterApplyMut(kr) == [kr EXCEPT !.xpc = "hClear"]
HighlightAfterApply(kr) == [kr EXCEPT !.xpc = "hWait"]

ExHApply(k, ok) ==
  /\ Executes(k)
  /\ keys[k].xpc = "hApply"
  /\ ok \/ CanFail
  /\ keys' = [keys EXCEPT ![k] = HighlightAfterApply(
                Logged(@, IF @.htype = "added" THEN "applyAdded" ELSE "applyRemoved", ok, "apply"))]
  /\ Count(ok)
  /\ UNCHANGED <<qvars, lvars, pos, kinds, fvars, store, consumed, gHasRemovals, enabled>>

\* highlight(): setTimeout(resolve, duration) fired
ExHWait(k) ==
  /\ Executes(k)
  /\ keys[k].xpc = "hWait"
  /\ keys' = [keys EXCEPT ![k].log = Append(@, "wait"), ![k].xpc = "hClear"]
  /\ UNCHANGED <<qvars, lvars, pos, kinds, fvars, store, consumed, gHasRemovals, enabled, nfails>>

\* highlight(): await clearHighlights(...); a failure goes to the catch of
\* highlight().  applyHighlights goes on with the next highlight() call.
ExHClear(k, ok) ==
  /\ Executes(k)
  /\ keys[k].xpc = "hClear"
  /\ ok \/ CanFail
  /\ LET kr == Logged(keys[k], "clear", ok, "clear")
     IN IF kr.todo # <<>>
        THEN /\ keys' = [keys EXCEPT ![k] = [kr EXCEPT !.xpc = "hApply", !.htype = Head(kr.todo),
                                                       !.todo = Tail(kr.todo)]]
             /\ UNCHANGED cmd
        ELSE Finish(k, kr, TRUE)
  /\ Count(ok)
  /\ UNCHANGED <<queues, arr, processing, loops, now, started, clearedEver, clears,
                 lvars, pos, kinds, fvars, store, consumed, gHasRemovals, enabled>>

\* ------------------------------------------------------ JavaScript strings --
\* a string is the sequence of its characters (UTF-16 code units)
NL == "\n"
Chars == {"a", NL}

\* String.prototype.charCodeAt, for the characters of the model
Code(ch) ==
  CASE ch = NL -> 10
    [] ch = " " -> 32
    [] ch = "1" -> 49
    [] ch = "B" -> 66
    [] ch = "_" -> 95
    [] ch = "a" -> 97
    [] ch = "U+00E9" -> 233
    [] ch = "U+4E00" -> 19968
    [] ch = "U+D83D" -> 55357
    [] ch = "U+DE00" -> 56832

\* the strings of at most n characters out of chars
RECURSIVE StringsOver(_, _)
StringsOver(chars, n) ==
  IF n = 0 THEN {<<>>}
  ELSE LET shorter == StringsOver(chars, n - 1)
       IN shorter \cup {Append(s, ch) : s \in {t \in shorter : Len(t) = n - 1}, ch \in chars}

StringsUpTo(n) == StringsOver(Chars, n)

\* String.prototype.startsWith, endsWith
StartsWith(s, p) == Len(p) <= Len(s) /\ SubSeq(s, 1, Len(p)) = p
EndsWith(s, p) == Len(p) <= Len(s) /\ SubSeq(s, Len(s) - Len(p) + 1, Len(s)) = p

\* String.prototype.substring: an index outside the string counts as the
\* nearer end of it, and the smaller index is the start
Substring(s, from, to) ==
  LET Clamp(i) == IF i < 0 THEN 0 ELSE IF i > Len(s) THEN Len(s) ELSE i
      a == Clamp(from)
      b == Clamp(to)
  IN IF a <= b THEN SubSeq(s, a + 1, b) ELSE SubSeq(s, b + 1, a)

\* String.prototype.split("\n"): the pieces between the line feeds
RECURSIVE SplitLines(_)
SplitLines(s) ==
  IF \A i \in DOMAIN s : s[i] # NL THEN <<s>>
  ELSE LET i == CHOOSE j \in DOMAIN s : s[j] = NL /\ \A m \in 1..(j - 1) : s[m] # NL
       IN <<SubSeq(s, 1, i - 1)>> \o SplitLines(SubSeq(s, i + 1, Len(s)))

LineCount(s) == Len(SplitLines(s))

\* String.prototype.lastIndexOf("\n"): 0-based, -1 when there is none
LastIndexOfNL(s) ==
  IF \A i \in DOMAIN s : s[i] # NL THEN -1
  ELSE (CHOOSE j \in DOMAIN s : s[j] = NL /\ \A m \in (j + 1)..Len(s) : s[m] # NL) - 1

Abs(n) == IF n < 0 THEN -n ELSE n

RECURSIVE Concat(_)
Concat(ss) == IF ss = <<>> THEN <<>> ELSE Head(ss) \o Concat(Tail(ss))

\* -------------------------------------------------- createDiffOptimizer --
HashPrefix == 100
Word == 65536

\* hash: h = ((h << 5) - h) + charCode; h |= 0, over the first 100 characters.
\* The 32-bit value is carried as its two 16-bit halves <<hi, lo>>.
HashStep(h, c) ==
  LET lo == h[2] * 31 + c
      hi == h[1] * 31 + (lo \div Word)
  IN <<hi % Word, lo % Word>>

\* the loop over the characters of a string, from the value h. The string is
\* walked half by half; the value between the halves is a 32-bit word.
RECURSIVE HashOver(_, _)
HashOver(str, h) ==
  IF str = <<>> THEN h
  ELSE IF Len(str) = 1 THEN HashStep(h, Code(str[1]))
  ELSE LET half == Len(str) \div 2
           left == HashOver(SubSeq(str, 1, half), h)
       IN CASE left[1] < Word /\ left[2] < Word ->
                 HashOver(SubSeq(str, half + 1, Len(str)), left)

\* the signed 32-bit integer that h |= 0 leaves
Hash(str) ==
  LET n == IF Len(str) < HashPrefix THEN Len(str) ELSE HashPrefix
      h == HashOver(Substring(str, 0, n), <<0, 0>>)
  IN IF h[1] >= Word \div 2 THEN (h[1] - Word) * Word + h[2] ELSE h[1] * Word + h[2]

\* the texts the optimizer is called with: every short text, and the texts
\* of HashPrefix characters and more that differ behind the first HashPrefix
Pad == [i \in 1..HashPrefix |-> "a"]
Texts == StringsUpTo(MaxText) \cup {Pad \o s : s \in StringsUpTo(MaxText - 1)}

\* `${hash(before)}_${hash(after)}`: the decimal numerals of two integers
\* around "_" determine the two integers, so the key is the pair
GetCacheKey(before, after) == <<Hash(before), Hash(after)>>

Null == [changes |-> <<>>, lineInfo |-> [aboveLine |-> 0, belowLine |-> 0], null |-> TRUE]
DiffResult(changes, above, below) ==
  [changes |-> changes, lineInfo |-> [aboveLine |-> above, belowLine |-> below], null |-> FALSE]

Same(v) == [value |-> v, count |-> Len(v), added |-> FALSE, removed |-> FALSE]
Added(v) == [value |-> v, count |-> Len(v), added |-> TRUE, removed |-> FALSE]
Removed(v) == [value |-> v, count |-> Len(v), added |-> FALSE, removed |-> TRUE]

IsSimpleInsertion(before, after) == StartsWith(after, before) \/ EndsWith(after, before)
IsSimpleDeletion(before, after) == StartsWith(before, after) \/ EndsWith(before, after)

HandleSimpleInsertion(before, after) ==
  LET atEnd == StartsWith(after, before)
      added == IF atEnd THEN Substring(after, Len(before), Len(after))
                        ELSE Substring(after, 0, Len(after) - Len(before))
      position == IF atEnd THEN Len(before) ELSE 0
      changes == IF atEnd THEN <<Same(before), Added(added)>>
                          ELSE <<Added(added), Same(before)>>
      lineNumber == LineCount(Substring(before, 0, position))
  IN DiffResult(changes, lineNumber, lineNumber + LineCount(added))

HandleSimpleDeletion(before, after) ==
  LET atEnd == StartsWith(before, after)
      removed == IF atEnd THEN Substring(before, Len(after), Len(before))
                          ELSE Substring(before, 0, Len(before) - Len(after))
      position == IF atEnd THEN Len(after) ELSE 0
      changes == IF atEnd THEN <<Same(after), Removed(removed)>>
                          ELSE <<Removed(removed), Same(after)>>
      lineNumber == LineCount(Substring(after, 0, position))
  IN DiffResult(changes, lineNumber, lineNumber)

\* ---- the diff library (diffChars and diffLines of npm:diff 5.2.0) ----
\* The library is not part of the repository. It is modelled by its contract:
\* the result is an edit script from oldStr to newStr, unchanged text is kept
\* as one segment per run, a replaced run is its removed segment followed by
\* its added segment, and no segment is empty. The script modelled keeps the
\* longest common head and tail of the two token sequences.
\* the number of leading tokens two sequences share
CommonHead(s, t) ==
  LET m == IF Len(s) < Len(t) THEN Len(s) ELSE Len(t)
  IN CHOOSE n \in 0..m :
       /\ \A i \in 1..n : s[i] = t[i]
       /\ n < m => s[n + 1] # t[n + 1]

CommonTail(s, t) ==
  LET Rev(x) == [i \in 1..Len(x) |-> x[Len(x) + 1 - i]]
  IN CommonHead(Rev(s), Rev(t))

\* the edit script over the token sequences old and new; a segment's value is
\* its tokens joined (lines) or its tokens themselves (characters)
EditScript(old, new, lines) ==
  LET h == CommonHead(old, new)
      o1 == SubSeq(old, h + 1, Len(old))
      n1 == SubSeq(new, h + 1, Len(new))
      t == CommonTail(o1, n1)
      rem == SubSeq(o1, 1, Len(o1) - t)
      add == SubSeq(n1, 1, Len(n1) - t)
      Seg(toks, a, r) ==
        IF toks = <<>> THEN <<>>
        ELSE <<[value |-> IF lines THEN Concat(toks) ELSE toks, count |-> Len(toks),
                added |-> a, removed |-> r]>>
  IN Seg(SubSeq(old, 1, h), FALSE, FALSE) \o Seg(rem, FALSE, TRUE)
       \o Seg(add, TRUE, FALSE) \o Seg(SubSeq(o1, Len(o1) - t + 1, Len(o1)), FALSE, FALSE)

DiffChars(oldStr, newStr) == EditScript(oldStr, newStr, FALSE)

\* the tokens of diffLines: the lines, each with the line feed that ends it
LineTokens(s) ==
  LET pieces == SplitLines(s)
      n == Len(pieces)
      terminated == [i \in 1..(n - 1) |-> Append(pieces[i], NL)]
  IN IF pieces[n] = <<>> THEN terminated ELSE Append(terminated, pieces[n])

DiffLines(oldStr, newStr) == EditScript(LineTokens(oldStr), LineTokens(newStr), TRUE)

\* cache.get(key): the entry stored under the key, or Null
CacheHas(c, key) == \E i \in DOMAIN c : c[i].key = key
CacheGet(c, key) == c[CHOOSE i \in DOMAIN c : c[i].key = key].result

OverThreshold(before, after, threshold) ==
  \/ Abs(Len(before) - Len(after)) > threshold.char
  \/ Abs(LineCount(before) - LineCount(after)) > threshold.line

\* the general case with the newest entry dropped when the cache is over its limit
FullDiffMut(c, key, before, after) ==
  LET changes == DiffChars(before, after)
      lineChanges == DiffLines(before, after)
      above == Head(lineChanges)
      rest == Tail(lineChanges)
      aboveLine == above.count + 1
      belowLine == IF rest # <<>>
                   THEN LineCount(after) - rest[Len(rest)].count + 1
                   ELSE aboveLine
      result == DiffResult(changes, aboveLine, belowLine)
      stored == Append(c, [key |-> key, result |-> result])
  IN [result |-> result,
      cache |-> IF Len(stored) > MaxCacheEntries THEN c ELSE stored,
      path |-> "full", dropped |-> Len(stored) > MaxCacheEntries]

\* the general case: both diffs, the result stored in the cache, the oldest
\* entry dropped when the cache is over its limit
FullDiff(c, key, before, after) ==
  LET changes == DiffChars(before, after)
      lineChanges == DiffLines(before, after)
      above == Head(lineChanges)
      rest == Tail(lineChanges)
      aboveLine == above.count + 1
      belowLine == IF rest # <<>>
                   THEN LineCount(after) - rest[Len(rest)].count + 1
                   ELSE aboveLine
      result == DiffResult(changes, aboveLine, belowLine)
      stored == Append(c, [key |-> key, result |-> result])
  IN [result |-> result,
      cache |-> IF Len(stored) > MaxCacheEntries THEN Tail(stored) ELSE stored,
      path |-> "full", dropped |-> Len(stored) > MaxCacheEntries]

\* calculateDiff with the cache looked up before the texts are compared
CalculateDiffOpMut(c, before, after, threshold) ==
  LET key == GetCacheKey(before, after)
  IN IF CacheHas(c, key) THEN [result |-> CacheGet(c, key), cache |-> c, path |-> "cached",
             dropped |-> FALSE]
     ELSE IF before = after THEN [result |-> Null, cache |-> c, path |-> "same",
             dropped |-> FALSE]
     ELSE IF OverThreshold(before, after, threshold)
       THEN [result |-> Null, cache |-> c, path |-> "threshold",
             dropped |-> FALSE]
     ELSE IF IsSimpleInsertion(before, after)
       THEN [result |-> HandleSimpleInsertion(before, after), cache |-> c, path |-> "insertion",
             dropped |-> FALSE]
     ELSE IF IsSimpleDeletion(before, after)
       THEN [result |-> HandleSimpleDeletion(before, after), cache |-> c, path |-> "deletion",
             dropped |-> FALSE]
     ELSE FullDiff(c, key, before, after)
CalculateDiffOp(c, before, after, threshold) ==
  LET key == GetCacheKey(before, after)
  IN IF before = after THEN [result |-> Null, cache |-> c, path |-> "same",
             dropped |-> FALSE]
     ELSE IF CacheHas(c, key) THEN [result |-> CacheGet(c, key), cache |-> c, path |-> "cached",
             dropped |-> FALSE]
     ELSE IF OverThreshold(before, after, threshold)
       THEN [result |-> Null, cache |-> c, path |-> "threshold",
             dropped |-> FALSE]
     ELSE IF IsSimpleInsertion(before, after)
       THEN [result |-> HandleSimpleInsertion(before, after), cache |-> c, path |-> "insertion",
             dropped |-> FALSE]
     ELSE IF IsSimpleDeletion(before, after)
       THEN [result |-> HandleSimpleDeletion(before, after), cache |-> c, path |-> "deletion",
             dropped |-> FALSE]
     ELSE FullDiff(c, key, before, after)

\* config.threshold: the values are positive (validateConfig)
Tight == [line |-> 1, char |-> 1]
Loose == [line |-> 50, char |-> 1500]
Thresholds == {Tight, Loose}

NoCall == [n |-> 0, fn |-> "none", before |-> <<>>, after |-> <<>>, threshold |-> Loose,
           result |-> Null, path |-> "none", dropped |-> FALSE]

CalculateDiff(before, after, threshold) ==
  /\ lastCall.n < MaxCalls
  /\ LET r == CalculateDiffOp(cache, before, after, threshold)
     IN /\ cache' = r.cache
        /\ lastCall' = [n |-> lastCall.n + 1, fn |-> "calculateDiff", before |-> before,
                    after |-> after, threshold |-> threshold,
                    result |-> r.result, path |-> r.path, dropped |-> r.dropped]
  /\ UNCHANGED <<pipe, bvars, probe, qvars, lvars, kvars>>

ClearCache ==
  /\ cache' = <<>>
  /\ UNCHANGED <<lastCall, pipe, bvars, probe, qvars, lvars, kvars>>

\* ------------------------------------------------------- computeRanges --
ChangeTypes == {"added", "removed"}

GetLineNumber(code, index) == LineCount(Substring(code, 0, index))
GetStartPositionInLine(code, index) == LastIndexOfNL(Substring(code, 0, index))
GetColumnPosition(codeIndex, startPosInCurrentLine) ==
  IF startPosInCurrentLine = -1 THEN codeIndex ELSE codeIndex - startPosInCurrentLine - 1

\* lines[lnum - 1] || ""
LineAt(lines, lnum) == IF lnum \in DOMAIN lines THEN lines[lnum] ELSE <<>>

Range(lnum, lineText, start, end, matchText, changeType) ==
  [lnum |-> lnum, lineText |-> lineText, col |-> [start |-> start, end |-> end],
   matchText |-> matchText, changeType |-> changeType]

\* one range for every piece of the change that is not empty; the piece after
\* the last line feed is skipped when it is empty
ProcessMultiLineChange(value, targetCode, codeIndex, changeType) ==
  LET lnum == GetLineNumber(targetCode, codeIndex)
      firstLineStartCol ==
        GetColumnPosition(codeIndex, GetStartPositionInLine(targetCode, codeIndex))
      splitLines == SplitLines(value)
      lines == SplitLines(targetCode)
      RangeOf(i) ==
        LET text == splitLines[i]
            start == IF i = 1 THEN firstLineStartCol ELSE 0
        IN Range(lnum + i - 1, LineAt(lines, lnum + i - 1), start, start + Len(text),
                 text, changeType)
  IN SelectSeq([i \in 1..Len(splitLines) |-> RangeOf(i)], LAMBDA r : r.matchText # <<>>)

ProcessSingleLineChange(value, targetCode, codeIndex, changeType) ==
  LET lnum == GetLineNumber(targetCode, codeIndex)
      col == GetColumnPosition(codeIndex, GetStartPositionInLine(targetCode, codeIndex))
  IN <<Range(lnum, LineAt(SplitLines(targetCode), lnum), col, col + Len(value),
             value, changeType)>>

ProcessChange(value, targetCode, codeIndex, changeType) ==
  IF \E i \in DOMAIN value : value[i] = NL
  THEN ProcessMultiLineChange(value, targetCode, codeIndex, changeType)
  ELSE ProcessSingleLineChange(value, targetCode, codeIndex, changeType)

\* the loop of computeRanges from the segment at the head of changes on
RECURSIVE RangesFrom(_, _, _, _)
RangesFrom(changes, targetCode, codeIndex, changeType) ==
  IF changes = <<>> THEN <<>>
  ELSE LET change == Head(changes)
           here == IF change[changeType]
                   THEN ProcessChange(change.value, targetCode, codeIndex, changeType)
                   ELSE <<>>
           opposite == IF changeType = "added" THEN change.removed ELSE change.added
           next == IF opposite THEN codeIndex ELSE codeIndex + Len(change.value)
       IN here \o RangesFrom(Tail(changes), targetCode, next, changeType)

ComputeRanges(changes, beforeCode, afterCode, changeType) ==
  RangesFrom(changes, IF changeType = "removed" THEN beforeCode ELSE afterCode, 0, changeType)

\* ------------------------------------------------------- fillRangeGaps --
\* the range with some of its fields replaced ({...range, col, matchText})
WithCol(range, start, end) == [range EXCEPT !.col = [start |-> start, end |-> end]]
WithSpan(range, start, end, matchText) ==
  [range EXCEPT !.col = [start |-> start, end |-> end], !.matchText = matchText]

\* fillRangeGaps that widens nothing
FillRangeMut(range, aboveLine, belowLine) ==
  IF \/ range.lnum > aboveLine /\ range.lnum < belowLine
     \/ range.lnum = aboveLine \/ range.lnum = belowLine
  THEN <<range>>
  ELSE <<>>

FillRange(range, aboveLine, belowLine) ==
  IF range.lnum > aboveLine /\ range.lnum < belowLine /\ range.col.start = 0
    THEN <<WithCol(range, 0, Len(range.lineText))>>
  ELSE IF range.lnum > aboveLine /\ range.lnum < belowLine /\ range.col.start # 0
    THEN <<range>>
  ELSE IF range.lnum = aboveLine \/ range.lnum = belowLine
    THEN <<range>>
  ELSE <<>>

\* fillRangeGaps that removes nothing
FillRangeGapsMut(ranges, aboveLine, belowLine) ==
  [i \in DOMAIN ranges |->
    IF FillRange(ranges[i], aboveLine, belowLine) = <<>> THEN ranges[i]
    ELSE Head(FillRange(ranges[i], aboveLine, belowLine))]

FillRangeGaps(ranges, aboveLine, belowLine) ==
  Concat([i \in DOMAIN ranges |-> FillRange(ranges[i], aboveLine, belowLine)])

\* ------------------------------------------------- the range adjusters --
\* text[i] and its like: a character, undefined outside the text, "" where
\* the code puts the empty string
Undefined == "undefined"
At(text, i) == IF i >= 0 /\ i < Len(text) THEN text[i + 1] ELSE Undefined

\* RegExp.prototype.test(x): undefined is tested as the string "undefined"
IsChar(x) == x \notin {Undefined, ""}
TestWhitespace(x) ==
  IsChar(x) /\ \/ Code(x) \in {9, 10, 11, 12, 13, 32, 160, 5760, 8232, 8233, 8239, 8287, 12288, 65279}
               \/ Code(x) \in 8192..8202
TestPunctuation(x) ==
  IsChar(x) /\ Code(x) \in {46, 44, 59, 58, 33, 63, 39, 34, 40, 41, 91, 93, 123, 125, 60, 62}
TestOperator(x) ==
  IsChar(x) /\ Code(x) \in {43, 45, 42, 47, 37, 61, 60, 62, 38, 124, 94, 126}
TestCjk(x) ==
  IsChar(x) /\ \/ Code(x) \in 19968..40959
               \/ Code(x) \in 12352..12447
               \/ Code(x) \in 12448..12543
               \/ Code(x) \in 44032..55215
TestLower(x) == x = Undefined \/ (IsChar(x) /\ Code(x) \in 97..122)
TestUpper(x) == IsChar(x) /\ Code(x) \in 65..90
TestDigit(x) == IsChar(x) /\ Code(x) \in 48..57
TestLetter(x) == TestLower(x) \/ TestUpper(x)
TestWordChar(x) == TestLetter(x) \/ TestDigit(x) \/ (IsChar(x) /\ Code(x) = 95)
IsSeparator(x) == IsChar(x) /\ Code(x) \in {95, 45}

\* /^\s*$/.test(text)
OnlyWhitespace(text) == \A i \in DOMAIN text : TestWhitespace(text[i])

\* String.prototype.slice(0, -1) and slice(1)
DropLast(s) == SubSeq(s, 1, Len(s) - 1)
DropFirst(s) == SubSeq(s, 2, Len(s))

\* a range whose text ends with a line feed loses it, and is dropped when
\* nothing else is left; one that starts with a line feed, below line 1,
\* becomes the text behind it from column 0. (A text that is a lone line feed
\* ends with a line feed, so it never comes to the second case.)
AdjustNewlineBoundary(range) ==
  IF range.matchText # <<>> /\ range.matchText[Len(range.matchText)] = NL
    THEN IF DropLast(range.matchText) = <<>> THEN <<>>
         ELSE <<WithSpan(range, range.col.start, range.col.end - 1, DropLast(range.matchText))>>
  ELSE IF range.matchText # <<>> /\ range.matchText[1] = NL /\ range.lnum > 1
    THEN <<WithSpan(range, 0, Len(DropFirst(range.matchText)), DropFirst(range.matchText))>>
  ELSE <<range>>

AdjustNewlineBoundaries(ranges) ==
  Concat([i \in DOMAIN ranges |-> AdjustNewlineBoundary(ranges[i])])

DetectAndAdjustFullLineChange(ranges, targetChangeType) ==
  [i \in DOMAIN ranges |->
    LET range == ranges[i]
        isEndOfLine == range.col.end = Len(range.lineText)
        startsAfterIndent == range.col.start > 0 /\ isEndOfLine
        textBefore == Substring(range.lineText, 0, range.col.start)
    IN IF range.changeType # targetChangeType THEN range
       ELSE IF startsAfterIndent /\ OnlyWhitespace(textBefore)
         THEN WithSpan(range, 0, Len(range.lineText), range.lineText)
       ELSE range]

DetectAndAdjustFullLineDeletion(ranges) == DetectAndAdjustFullLineChange(ranges, "removed")
DetectAndAdjustFullLineAddition(ranges) == DetectAndAdjustFullLineChange(ranges, "added")

\* a character a condition can be tested on ("" and undefined are falsy)
Truthy(x) == IsChar(x)
Stops(x) == TestWhitespace(x) \/ TestPunctuation(x) \/ TestOperator(x)

IsWordBoundary(text, at, direction) ==
  IF at < 0 \/ at >= Len(text) THEN TRUE
  ELSE LET char == At(text, at)
           adjacentPos == IF direction = "left" THEN at + 1 ELSE at - 1
           adjacentChar == IF adjacentPos >= 0 /\ adjacentPos < Len(text)
                           THEN At(text, adjacentPos) ELSE ""
       IN \/ Stops(char)
          \/ TestCjk(char)
          \/ /\ Truthy(adjacentChar)
             /\ direction = "left"
             /\ \/ TestLower(char) /\ TestUpper(adjacentChar)
                \/ TestDigit(char) /\ TestLetter(adjacentChar)
                \/ TestLetter(char) /\ TestDigit(adjacentChar)
          \/ IsSeparator(char) /\ ~IsSeparator(adjacentChar)

\* what one turn of a loop of findWordBoundary returns at index i, -1 when it
\* goes on to the next index
CamelBackAt(text, i) ==
  LET char == At(text, i)
      prevChar == IF i > 0 THEN At(text, i - 1) ELSE ""
  IN IF Stops(char) THEN i + 1
     ELSE IF TestUpper(char) /\ Truthy(prevChar) /\ TestLower(prevChar) THEN i
     ELSE IF IsSeparator(char) THEN i + 1
     ELSE -1

BackwardAt(text, i) ==
  LET char == At(text, i)
      nextChar == IF i + 1 < Len(text) THEN At(text, i + 1) ELSE ""
      prevChar == IF i > 0 THEN At(text, i - 1) ELSE ""
  IN IF Stops(char) THEN i + 1
     ELSE IF TestCjk(char) /\ Truthy(nextChar) /\ ~TestCjk(nextChar) THEN i + 1
     ELSE IF ~TestCjk(char) /\ Truthy(nextChar) /\ TestCjk(nextChar) THEN i + 1
     ELSE IF TestUpper(char) /\ Truthy(prevChar) /\ TestLower(prevChar) THEN i
     ELSE IF Truthy(nextChar) /\ TestDigit(char) /\ TestLetter(nextChar) THEN i + 1
     ELSE IF Truthy(nextChar) /\ TestLetter(char) /\ TestDigit(nextChar) THEN i + 1
     ELSE IF IsSeparator(char) THEN i + 1
     ELSE -1

ForwardAt(text, i) ==
  LET char == At(text, i)
      prevChar == IF i > 0 THEN At(text, i - 1) ELSE ""
  IN IF Stops(char) THEN i
     ELSE IF (~Truthy(prevChar) \/ ~TestCjk(prevChar)) /\ TestCjk(char) THEN i
     ELSE IF TestUpper(char) /\ Truthy(prevChar) /\ TestLower(prevChar) THEN i
     ELSE IF Truthy(prevChar) /\ TestDigit(char) /\ TestLetter(prevChar) THEN i
     ELSE IF Truthy(prevChar) /\ TestLetter(char) /\ TestDigit(prevChar) THEN i
     ELSE IF IsSeparator(char) THEN i
     ELSE -1

\* for (i = from; i >= 0; i--), and 0 behind the loop; camel tells the loop
\* of the camelCase case from the normal backward search
RECURSIVE LoopDown(_, _, _)
LoopDown(text, i, camel) ==
  LET turn == IF camel THEN CamelBackAt(text, i) ELSE BackwardAt(text, i)
  IN IF i < 0 THEN 0
     ELSE IF turn # -1 THEN turn
     ELSE LoopDown(text, i - 1, camel)

\* for (i = from; i < text.length; i++), and text.length behind the loop
RECURSIVE LoopUp(_, _)
LoopUp(text, i) ==
  IF i >= Len(text) THEN Len(text)
  ELSE IF ForwardAt(text, i) # -1 THEN ForwardAt(text, i)
  ELSE LoopUp(text, i + 1)

\* findWordBoundary whose forward search starts at the head of the text
FindWordBoundaryMut(text, start, direction) ==
  IF direction = "backward" THEN LoopDown(text, start - 1, FALSE) ELSE LoopUp(text, 0)

FindWordBoundary(text, start, direction) ==
  IF direction = "backward"
  THEN IF /\ start > 0
          /\ start < Len(text)
          /\ TestUpper(At(text, start))
          /\ TestLower(At(text, start - 1))
       THEN LoopDown(text, start - 2, TRUE)
       ELSE LoopDown(text, start - 1, FALSE)
  ELSE LoopUp(text, start)

\* while (at >= 0 && /[a-z]/.test(text[at])) at--
RECURSIVE SkipLowerDown(_, _)
SkipLowerDown(text, at) ==
  IF at >= 0 /\ TestLower(At(text, at)) THEN SkipLowerDown(text, at - 1) ELSE at

\* while (at > 0 && cjk.test(text[at - 1])) at--
RECURSIVE SkipCjkDown(_, _)
SkipCjkDown(text, at) ==
  IF at > 0 /\ TestCjk(At(text, at - 1)) THEN SkipCjkDown(text, at - 1) ELSE at

\* while (at < text.length && wordChar.test(text[at])) at++
RECURSIVE SkipWordUp(_, _)
SkipWordUp(text, at) ==
  IF at < Len(text) /\ TestWordChar(At(text, at)) THEN SkipWordUp(text, at + 1) ELSE at

AdjustWordBoundary(range) ==
  LET lineText == range.lineText
      col == range.col
      startBoundary == col.start = 0 \/ IsWordBoundary(lineText, col.start - 1, "left")
      endBoundary == col.end = Len(lineText) \/ IsWordBoundary(lineText, col.end, "right")
      start1 == IF startBoundary THEN col.start
                ELSE FindWordBoundary(lineText, col.start, "backward")
      end1 == IF endBoundary THEN col.end ELSE FindWordBoundary(lineText, col.end, "forward")
      checkPos == SkipLowerDown(lineText, col.start - 1)
      start2 == IF col.start > 0 /\ TestUpper(At(lineText, col.start)) /\ checkPos < col.start - 1
                THEN FindWordBoundary(lineText, checkPos + 1, "backward")
                ELSE start1
      selected == Substring(lineText, col.start, col.end)
      hasCjk == \E i \in DOMAIN selected : TestCjk(selected[i])
      newStart == IF hasCjk THEN SkipCjkDown(lineText, start2) ELSE start2
      newEnd == IF hasCjk /\ col.end < Len(lineText) /\ ~TestCjk(At(lineText, col.end))
                THEN SkipWordUp(lineText, col.end)
                ELSE end1
  IN IF Len(range.matchText) <= 1 THEN range
     ELSE IF startBoundary /\ endBoundary THEN range
     ELSE IF newEnd - newStart > Len(range.matchText) * 5 THEN range
     ELSE WithSpan(range, newStart, newEnd, Substring(lineText, newStart, newEnd))

AdjustWordBoundaries(ranges) == [i \in DOMAIN ranges |-> AdjustWordBoundary(ranges[i])]

\* String.prototype.search(/\S/): the index of the first character that is
\* not whitespace, -1 when there is none
SearchContent(text) ==
  IF OnlyWhitespace(text) THEN -1
  ELSE (CHOOSE i \in DOMAIN text :
          ~TestWhitespace(text[i]) /\ \A j \in 1..(i - 1) : TestWhitespace(text[j])) - 1

\* String.prototype.search(/\s*$/): the index where the whitespace at the end
\* of the text begins
SearchTrailing(text) ==
  CHOOSE i \in 0..Len(text) :
    /\ OnlyWhitespace(SubSeq(text, i + 1, Len(text)))
    /\ i > 0 => ~TestWhitespace(text[i])

HandleWhitespaceChange(range) ==
  LET lineText == range.lineText
      col == range.col
      contentStart == SearchContent(lineText)
      contentEnd == SearchTrailing(lineText)
  IN IF ~OnlyWhitespace(range.matchText) THEN range
     ELSE IF col.start = 0 /\ contentStart > 0
       THEN WithSpan(range, 0, contentStart, Substring(lineText, 0, contentStart))
     ELSE IF /\ \/ col.end = Len(lineText)
                \/ OnlyWhitespace(Substring(lineText, col.end, Len(lineText)))
             /\ contentEnd >= 0
             /\ contentEnd < col.end
       THEN WithSpan(range, contentEnd, Len(lineText),
                     Substring(lineText, contentEnd, Len(lineText)))
     ELSE range

HandleWhitespaceChanges(ranges) == [i \in DOMAIN ranges |-> HandleWhitespaceChange(ranges[i])]

\* the comparators: by line and start column (mergeOverlappingRanges), or by
\* start column alone (mergeRangesInSameLine); a sorts before b
SortsBefore(a, b, byLine) ==
  IF byLine /\ a.lnum # b.lnum THEN a.lnum < b.lnum ELSE a.col.start < b.col.start

\* Array.prototype.sort, which is stable: x goes in front of the first element
\* it sorts before
RECURSIVE Insert(_, _, _)
Insert(sorted, x, byLine) ==
  IF sorted = <<>> THEN <<x>>
  ELSE IF SortsBefore(x, Head(sorted), byLine) THEN <<x>> \o sorted
  ELSE <<Head(sorted)>> \o Insert(Tail(sorted), x, byLine)

RECURSIVE Sort(_, _)
Sort(ranges, byLine) ==
  IF ranges = <<>> THEN <<>>
  ELSE Insert(Sort(SubSeq(ranges, 1, Len(ranges) - 1), byLine), ranges[Len(ranges)], byLine)

Max(a, b) == IF a > b THEN a ELSE b

\* the loop of mergeOverlappingRanges from the range current on
RECURSIVE MergeFrom(_, _)
MergeFrom(current, rest) ==
  IF rest = <<>> THEN <<current>>
  ELSE LET next == Head(rest)
           newEnd == Max(current.col.end, next.col.end)
       IN IF /\ current.lnum = next.lnum
             /\ current.changeType = next.changeType
             /\ current.col.end >= next.col.start
          THEN MergeFrom(WithSpan(current, current.col.start, newEnd,
                                  Substring(current.lineText, current.col.start, newEnd)),
                         Tail(rest))
          ELSE <<current>> \o MergeFrom(next, Tail(rest))

\* mergeOverlappingRanges without its sort
MergeOverlappingRangesMut(ranges) ==
  IF Len(ranges) <= 1 THEN ranges ELSE MergeFrom(Head(ranges), Tail(ranges))

MergeOverlappingRanges(ranges) ==
  IF Len(ranges) <= 1 THEN ranges
  ELSE LET sorted == Sort(ranges, TRUE) IN MergeFrom(Head(sorted), Tail(sorted))

\* ----------------------------------------------- the heuristic strategy --
DefaultThresholds == [tiny |-> 5, small |-> 20, medium |-> 100]
DefaultStrategies == [tiny |-> "character", small |-> "word", medium |-> "line", large |-> "block"]

RECURSIVE TotalChars(_)
TotalChars(ranges) ==
  IF ranges = <<>> THEN 0 ELSE Len(Head(ranges).matchText) + TotalChars(Tail(ranges))

\* evaluateChangeSize with the small and the medium size exchanged
EvaluateChangeSizeMut(ranges, thresholds) ==
  LET totalChars == TotalChars(ranges)
  IN IF totalChars <= thresholds.tiny THEN "tiny"
     ELSE IF totalChars <= thresholds.small THEN "medium"
     ELSE IF totalChars <= thresholds.medium THEN "small"
     ELSE "large"
EvaluateChangeSize(ranges, thresholds) ==
  LET totalChars == TotalChars(ranges)
  IN IF totalChars <= thresholds.tiny THEN "tiny"
     ELSE IF totalChars <= thresholds.small THEN "small"
     ELSE IF totalChars <= thresholds.medium THEN "medium"
     ELSE "large"

SelectDisplayStrategy(size, strategies) == strategies[size]

\* the keys of a Map in the order they were first set
RECURSIVE FirstSeen(_)
FirstSeen(ks) ==
  IF ks = <<>> THEN <<>>
  ELSE LET front == FirstSeen(SubSeq(ks, 1, Len(ks) - 1))
           last == ks[Len(ks)]
       IN IF \E i \in DOMAIN front : front[i] = last THEN front ELSE Append(front, last)

\* the ranges of one line and one change type as mergeRangesInSameLine leaves
\* them: a single range as it is, several as one range from the smallest
\* start to the largest end
MergeTypeGroup(typeGroup) ==
  IF Len(typeGroup) = 1 THEN typeGroup
  ELSE LET sorted == Sort(typeGroup, FALSE)
           first == Head(sorted)
           start == CHOOSE m \in {sorted[i].col.start : i \in DOMAIN sorted} :
                      \A i \in DOMAIN sorted : m <= sorted[i].col.start
           end == CHOOSE m \in {sorted[i].col.end : i \in DOMAIN sorted} :
                    \A i \in DOMAIN sorted : m >= sorted[i].col.end
       IN <<WithSpan(first, start, end, Substring(first.lineText, start, end))>>

MergeLineGroup(group) ==
  IF Len(group) = 1 THEN group
  ELSE LET types == FirstSeen([i \in DOMAIN group |-> group[i].changeType])
       IN Concat([t \in DOMAIN types |->
                   MergeTypeGroup(SelectSeq(group, LAMBDA r : r.changeType = types[t]))])

MergeRangesInSameLine(ranges) ==
  LET lnums == FirstSeen([i \in DOMAIN ranges |-> ranges[i].lnum])
  IN Concat([l \in DOMAIN lnums |->
              MergeLineGroup(SelectSeq(ranges, LAMBDA r : r.lnum = lnums[l]))])

\* mergeBlockRanges that widens only the first range of the block
MergeBlockRangesMut(block) ==
  [i \in DOMAIN block |->
    IF i = 1 THEN WithSpan(block[i], 0, Len(block[i].lineText), block[i].lineText)
    ELSE block[i]]

MergeBlockRanges(block) ==
  [i \in DOMAIN block |->
    WithSpan(block[i], 0, Len(block[i].lineText), block[i].lineText)]

\* a finished block: merged when it has more than one range
CloseBlock(block) == IF Len(block) > 1 THEN MergeBlockRanges(block) ELSE block

\* the loop of mergeRangesInBlock from the range behind prev on
RECURSIVE BlocksFrom(_, _, _)
BlocksFrom(currentBlock, prev, rest) ==
  IF rest = <<>> THEN CloseBlock(currentBlock)
  ELSE LET curr == Head(rest)
       IN IF curr.lnum - prev.lnum <= 1 /\ prev.changeType = curr.changeType
          THEN BlocksFrom(Append(currentBlock, curr), curr, Tail(rest))
          ELSE CloseBlock(currentBlock) \o BlocksFrom(<<curr>>, curr, Tail(rest))

MergeRangesInBlock(ranges) ==
  IF ranges = <<>> THEN <<>> ELSE BlocksFrom(<<Head(ranges)>>, Head(ranges), Tail(ranges))

\* config is the heuristics configuration with the defaults filled in
ApplyHeuristicStrategy(ranges, config) ==
  LET size == EvaluateChangeSize(ranges, config.thresholds)
      strategy == SelectDisplayStrategy(size, config.strategies)
  IN IF ~config.enabled THEN ranges
     ELSE IF strategy = "line" THEN MergeRangesInSameLine(ranges)
     ELSE IF strategy = "block" THEN MergeRangesInBlock(ranges)
     ELSE ranges

\* ------------------------------------------------ applyRangeAdjustments --
ApplyRangeAdjustments(ranges, config) ==
  LET r1 == IF config.heuristics.enabled
            THEN ApplyHeuristicStrategy(ranges, config.heuristics) ELSE ranges
      r2 == AdjustNewlineBoundaries(r1)
      r3 == DetectAndAdjustFullLineDeletion(r2)
      r4 == DetectAndAdjustFullLineAddition(r3)
      r5 == IF config.adjustWordBoundaries THEN AdjustWordBoundaries(r4) ELSE r4
      r6 == IF config.handleWhitespace THEN HandleWhitespaceChanges(r5) ELSE r5
  IN MergeOverlappingRanges(r6)

\* ------------------------------------------------- the range pipeline --
\* execute() hands the two snapshots to calculateDiff, and for each change
\* type the result to computeRanges, fillRangeGaps and applyRangeAdjustments
CodeChars == {"a", " ", NL}
Codes == StringsOver(CodeChars, MaxCode)

LineFirst == [DefaultStrategies EXCEPT !.tiny = "line"]
BlockFirst == [DefaultStrategies EXCEPT !.tiny = "block"]
Heuristics ==
  {[enabled |-> e, thresholds |-> DefaultThresholds, strategies |-> s] :
     e \in BOOLEAN, s \in {DefaultStrategies, LineFirst, BlockFirst}}
Configs ==
  [heuristics : Heuristics, adjustWordBoundaries : BOOLEAN, handleWhitespace : BOOLEAN]

NoPipe == [stage |-> "idle", before |-> <<>>, after |-> <<>>, result |-> Null,
           changeType |-> "added", ranges |-> <<>>]

PipeCalculateDiff(before, after) ==
  /\ pipe.stage = "idle"
  /\ LET r == CalculateDiffOp(cache, before, after, Loose)
     IN /\ cache' = r.cache
        /\ pipe' = [pipe EXCEPT !.stage = IF r.result.null THEN "null" ELSE "diffed",
                                !.before = before, !.after = after, !.result = r.result]
  /\ UNCHANGED <<lastCall, bvars, probe, qvars, lvars, kvars>>

PipeComputeRanges(changeType) ==
  /\ pipe.stage = "diffed"
  /\ pipe' = [pipe EXCEPT !.stage = "computed", !.changeType = changeType,
                          !.ranges = ComputeRanges(pipe.result.changes, pipe.before,
                                                   pipe.after, changeType)]
  /\ UNCHANGED <<cache, lastCall, bvars, probe, qvars, lvars, kvars>>

PipeFillRangeGaps ==
  /\ pipe.stage = "computed"
  /\ pipe' = [pipe EXCEPT !.stage = "filled",
                          !.ranges = FillRangeGaps(pipe.ranges, pipe.result.lineInfo.aboveLine,
                                                   pipe.result.lineInfo.belowLine)]
  /\ UNCHANGED <<cache, lastCall, bvars, probe, qvars, lvars, kvars>>

\* highlight and applyHighlightWithoutClear return at once when there is no range
PipeApplyRangeAdjustments(config) ==
  /\ pipe.stage = "filled"
  /\ pipe.ranges # <<>>
  /\ pipe' = [pipe EXCEPT !.stage = "adjusted",
                          !.ranges = ApplyRangeAdjustments(pipe.ranges, config)]
  /\ UNCHANGED <<cache, lastCall, bvars, probe, qvars, lvars, kvars>>

\* ------------------------------------------------ the buffer state store --
\* createBufferStateManager(maxCacheSize): buffers is the Map in insertion
\* order, one record per entry
StoreBufs == 1..MaxBufs
PreCodes == StringsOver({"a"}, MaxSnap)
PostCodes == {<<>>, <<NL>>}

\* what get returns for a buffer that has no entry: null
Absent == [null |-> TRUE, preCode |-> <<>>, postCode |-> <<>>]

IndexOf(bs, bufnr) ==
  IF \E i \in DOMAIN bs : bs[i].bufnr = bufnr
  THEN CHOOSE i \in DOMAIN bs : bs[i].bufnr = bufnr
  ELSE 0

\* clear(bufnr) on the store s = [buffers, currentCacheSize]
ClearOp(s, bufnr) ==
  LET i == IndexOf(s.buffers, bufnr)
  IN IF i = 0 THEN s
     ELSE [buffers |-> SubSeq(s.buffers, 1, i - 1) \o SubSeq(s.buffers, i + 1, Len(s.buffers)),
           currentCacheSize |-> s.currentCacheSize - s.buffers[i].size]

\* the entries in the order of the Map, not sorted
ByLastModifiedMut(bs) == bs

\* Array.from(buffers.entries()).sort(by lastModified): the sort is stable
ByLastModified(bs) ==
  LET Rank(i) == Cardinality({j \in DOMAIN bs :
                    \/ bs[j].lastModified < bs[i].lastModified
                    \/ bs[j].lastModified = bs[i].lastModified /\ j < i}) + 1
  IN [k \in DOMAIN bs |-> bs[CHOOSE i \in DOMAIN bs : Rank(i) = k]]

\* currentCacheSize > maxCacheSize * 0.8
OverEvictionMark(size) == 10 * size > 8 * MaxCacheSize

\* the while loop of evictOldEntries over the sorted entries; evicted collects
\* the buffers cleared, in order
RECURSIVE EvictLoop(_, _, _)
EvictLoop(s, entries, evicted) ==
  IF OverEvictionMark(s.currentCacheSize) /\ entries # <<>>
  THEN EvictLoop(ClearOp(s, Head(entries).bufnr), Tail(entries),
                 Append(evicted, Head(entries).bufnr))
  ELSE [store |-> s, evicted |-> evicted]

EvictOldEntries(s) == EvictLoop(s, ByLastModified(s.buffers), <<>>)

\* set that does not give back the size of the entry it replaces
SetOpMut(s, bufnr, preCode, postCode, t) ==
  LET i == IndexOf(s.buffers, bufnr)
      released == s.currentCacheSize
      size == Len(preCode) + Len(postCode)
      data == [bufnr |-> bufnr, preCode |-> preCode, postCode |-> postCode,
               lastModified |-> t, size |-> size]
      stored == [buffers |-> IF i # 0 THEN [s.buffers EXCEPT ![i] = data]
                             ELSE Append(s.buffers, data),
                 currentCacheSize |-> released + size]
      swept == EvictOldEntries(stored)
  IN IF stored.currentCacheSize > MaxCacheSize
     THEN [store |-> swept.store, evicted |-> swept.evicted, stored |-> stored]
     ELSE [store |-> stored, evicted |-> <<>>, stored |-> stored]

\* set(bufnr, preCode, postCode) at time t; Map.set keeps the position of a key
\* that is already there
SetOp(s, bufnr, preCode, postCode, t) ==
  LET i == IndexOf(s.buffers, bufnr)
      released == IF i # 0 THEN s.currentCacheSize - s.buffers[i].size
                  ELSE s.currentCacheSize
      size == Len(preCode) + Len(postCode)
      data == [bufnr |-> bufnr, preCode |-> preCode, postCode |-> postCode,
               lastModified |-> t, size |-> size]
      stored == [buffers |-> IF i # 0 THEN [s.buffers EXCEPT ![i] = data]
                             ELSE Append(s.buffers, data),
                 currentCacheSize |-> released + size]
      swept == EvictOldEntries(stored)
  IN IF stored.currentCacheSize > MaxCacheSize
     THEN [store |-> swept.store, evicted |-> swept.evicted, stored |-> stored]
     ELSE [store |-> stored, evicted |-> <<>>, stored |-> stored]

\* get(bufnr) at time t: the pair, or Null; the entry's time is refreshed
GetOp(s, bufnr, t) ==
  LET i == IndexOf(s.buffers, bufnr)
  IN IF i = 0 THEN [store |-> s, result |-> Absent]
     ELSE [store |-> [s EXCEPT !.buffers[i].lastModified = t],
           result |-> [null |-> FALSE, preCode |-> s.buffers[i].preCode,
                       postCode |-> s.buffers[i].postCode]]

GetStats == [bufferCount |-> Len(buffers), cacheSize |-> currentCacheSize,
             maxCacheSize |-> MaxCacheSize]

TheStore == [buffers |-> buffers, currentCacheSize |-> currentCacheSize]

\* every call reads Date.now(): dt is the time that went by since the last call
BufferSet(bufnr, preCode, postCode, dt) ==
  /\ lastOp.n < MaxOps
  /\ LET r == SetOp(TheStore, bufnr, preCode, postCode, clock + dt)
     IN /\ buffers' = r.store.buffers
        /\ currentCacheSize' = r.store.currentCacheSize
        /\ lastOp' = [n |-> lastOp.n + 1, fn |-> "set", bufnr |-> bufnr,
                      preCode |-> preCode, postCode |-> postCode, result |-> Absent,
                      evicted |-> r.evicted, stored |-> r.stored]
  /\ clock' = clock + dt
  /\ UNCHANGED <<cache, lastCall, pipe, probe, qvars, lvars, kvars>>

BufferGet(bufnr, dt) ==
  /\ lastOp.n < MaxOps
  /\ LET r == GetOp(TheStore, bufnr, clock + dt)
     IN /\ buffers' = r.store.buffers
        /\ lastOp' = [n |-> lastOp.n + 1, fn |-> "get", bufnr |-> bufnr,
                      preCode |-> <<>>, postCode |-> <<>>, result |-> r.result,
                      evicted |-> <<>>, stored |-> r.store]
  /\ clock' = clock + dt
  /\ UNCHANGED <<currentCacheSize, cache, lastCall, pipe, probe, qvars, lvars, kvars>>

BufferClear(bufnr) ==
  /\ lastOp.n < MaxOps
  /\ LET s == ClearOp(TheStore, bufnr)
     IN /\ buffers' = s.buffers
        /\ currentCacheSize' = s.currentCacheSize
        /\ lastOp' = [n |-> lastOp.n + 1, fn |-> "clear", bufnr |-> bufnr,
                      preCode |-> <<>>, postCode |-> <<>>, result |-> Absent,
                      evicted |-> <<>>, stored |-> s]
  /\ UNCHANGED <<clock, cache, lastCall, pipe, probe, qvars, lvars, kvars>>

BufferClearAll ==
  /\ lastOp.n < MaxOps
  /\ buffers' = <<>>
  /\ currentCacheSize' = 0
  /\ lastOp' = [n |-> lastOp.n + 1, fn |-> "clearAll", bufnr |-> 0,
                preCode |-> <<>>, postCode |-> <<>>, result |-> Absent,
                evicted |-> <<>>, stored |-> [buffers |-> <<>>, currentCacheSize |-> 0]]
  /\ UNCHANGED <<clock, cache, lastCall, pipe, probe, qvars, lvars, kvars>>

InitB ==
  /\ buffers = <<>>
  /\ currentCacheSize = 0
  /\ clock = 0
  /\ lastOp = [n |-> 0, fn |-> "none", bufnr |-> 0, preCode |-> <<>>, postCode |-> <<>>,
               result |-> Absent, evicted |-> <<>>,
               stored |-> [buffers |-> <<>>, currentCacheSize |-> 0]]

\* ------------------------------------------------------------- encoding --
\* a string is a sequence of UTF-16 code units; a character outside the basic
\* plane is a high surrogate followed by a low one
IsHighSurrogate(unit) == Code(unit) >= 55296 /\ Code(unit) <= 56319
IsLowSurrogate(unit) == Code(unit) >= 56320 /\ Code(unit) <= 57343

\* the string iterator (for ... of text): the code points of the string, a
\* surrogate pair as one of them, a surrogate alone as one of them
RECURSIVE CodePoints(_)
CodePoints(text) ==
  IF text = <<>> THEN <<>>
  ELSE IF Len(text) >= 2 /\ IsHighSurrogate(text[1]) /\ IsLowSurrogate(text[2])
       THEN <<SubSeq(text, 1, 2)>> \o CodePoints(SubSeq(text, 3, Len(text)))
       ELSE <<SubSeq(text, 1, 1)>> \o CodePoints(Tail(text))

\* encoder.encode(char).length for one code point: the length of its UTF-8
\* form; a surrogate alone is encoded as U+FFFD
EncodedLength(char) ==
  IF Len(char) = 2 THEN 4
  ELSE IF Code(char[1]) < 128 THEN 1
  ELSE IF Code(char[1]) < 2048 THEN 2
  ELSE 3

RECURSIVE SumLengths(_)
SumLengths(chars) ==
  IF chars = <<>> THEN 0 ELSE EncodedLength(Head(chars)) + SumLengths(Tail(chars))

GetByteLength(text) == SumLengths(CodePoints(text))

JsIndexToVimColumn(text, jsIndex) ==
  IF jsIndex <= 0 THEN 1
  ELSE IF jsIndex >= Len(text) THEN GetByteLength(text) + 1
  ELSE GetByteLength(Substring(text, 0, jsIndex)) + 1

\* the loop of vimColumnToJsIndex over the code points that are left
RECURSIVE CharIndexLoop(_, _, _, _)
CharIndexLoop(chars, byteCount, charIndex, targetByteIndex) ==
  IF chars = <<>> THEN charIndex
  ELSE IF byteCount + EncodedLength(Head(chars)) > targetByteIndex THEN charIndex
  ELSE CharIndexLoop(Tail(chars), byteCount + EncodedLength(Head(chars)),
                     charIndex + 1, targetByteIndex)

VimColumnToJsIndex(text, vimColumn) ==
  IF vimColumn <= 1 THEN 0
  ELSE IF vimColumn - 1 >= GetByteLength(text) THEN Len(text)
  ELSE CharIndexLoop(CodePoints(text), 0, 0, vimColumn - 1)

\* ------------------------------------------- the functions on their own --
\* a call of one of the pure range functions: its arguments and what it
\* returned. The functions keep no state, so a behaviour is one call.
NoProbe == [fn |-> "none", ranges |-> <<>>, aboveLine |-> 0, belowLine |-> 0, out |-> <<>>]

\* the lists of at most n elements of a set
RECURSIVE ListsOver(_, _)
ListsOver(elems, n) ==
  IF n = 0 THEN {<<>>}
  ELSE LET shorter == ListsOver(elems, n - 1)
       IN shorter \cup {Append(l, e) : l \in {s \in shorter : Len(s) = n - 1}, e \in elems}

\* the range start..end of a line, with the text of its columns as matchText
Span(lnum, lineText, start, end, changeType) ==
  Range(lnum, lineText, start, end, Substring(lineText, start, end), changeType)
\* the same range as fillRangeGaps leaves it when it has widened the columns:
\* the matchText is shorter than the columns
Stale(range) ==
  [range EXCEPT !.matchText = Substring(range.lineText, range.col.start, range.col.end - 1)]

TwoChars == <<"a", "a">>
\* partial ranges of lines 1..MaxLnum, at column 0 and behind it
LineRanges ==
  {Span(lnum, TwoChars, start, start + 1, changeType) :
     lnum \in 1..MaxLnum, start \in {0, 1}, changeType \in ChangeTypes}
\* the ranges of two lines, every span of them, with the matchText of the
\* columns or a stale one
OverlapRanges ==
  LET spans == {Span(lnum, TwoChars, start, end, changeType) :
                  lnum \in {1, 2}, start \in 0..2, end \in 0..2, changeType \in ChangeTypes}
      proper == {r \in spans : r.col.start <= r.col.end}
  IN proper \cup {Stale(r) : r \in {p \in proper : p.col.start < p.col.end}}
\* lines of text out of letters of both cases, a blank, a digit, an
\* underscore and a CJK character
WordChars == {"a", "B", " ", "1", "_", "U+4E00"}
WordLines == StringsOver(WordChars, MaxLine)

\* heuristics that choose the block strategy for every size of change
BlockAlways ==
  [enabled |-> TRUE, thresholds |-> DefaultThresholds,
   strategies |-> [tiny |-> "block", small |-> "block", medium |-> "block", large |-> "block"]]

ProbeFillRangeGaps(ranges, aboveLine, belowLine) ==
  /\ probe' = [fn |-> "fillRangeGaps", ranges |-> ranges, aboveLine |-> aboveLine,
               belowLine |-> belowLine, out |-> FillRangeGaps(ranges, aboveLine, belowLine)]
  /\ UNCHANGED <<cache, lastCall, pipe, bvars, qvars, lvars, kvars>>

ProbeMergeOverlappingRanges(ranges) ==
  /\ probe' = [fn |-> "mergeOverlappingRanges", ranges |-> ranges, aboveLine |-> 0,
               belowLine |-> 0, out |-> MergeOverlappingRanges(ranges)]
  /\ UNCHANGED <<cache, lastCall, pipe, bvars, qvars, lvars, kvars>>

ProbeAdjustWordBoundaries(ranges) ==
  /\ probe' = [fn |-> "adjustWordBoundaries", ranges |-> ranges, aboveLine |-> 0,
               belowLine |-> 0, out |-> AdjustWordBoundaries(ranges)]
  /\ UNCHANGED <<cache, lastCall, pipe, bvars, qvars, lvars, kvars>>

ProbeApplyHeuristicStrategy(ranges, config) ==
  /\ probe' = [fn |-> "applyHeuristicStrategy", ranges |-> ranges, aboveLine |-> 0,
               belowLine |-> 0, out |-> ApplyHeuristicStrategy(ranges, config)]
  /\ UNCHANGED <<cache, lastCall, pipe, bvars, qvars, lvars, kvars>>

\* texts of one-byte, two-byte and three-byte characters and of characters
\* outside the basic plane, as the UTF-16 strings they are
Points == {<<"a">>, <<"U+00E9">>, <<"U+4E00">>, <<"U+D83D", "U+DE00">>}
EncodedTexts == {Concat(points) : points \in ListsOver(Points, MaxPoints)}

\* an index of the text that is not inside a surrogate pair
IsCharacterBoundary(text, index) ==
  \E n \in 0..Len(CodePoints(text)) : index = Len(Concat(SubSeq(CodePoints(text), 1, n)))

ProbeRoundTrip(text, jsIndex) ==
  /\ probe' = [fn |-> "vimColumnToJsIndex", text |-> text, jsIndex |-> jsIndex,
               vimColumn |-> JsIndexToVimColumn(text, jsIndex),
               out |-> VimColumnToJsIndex(text, JsIndexToVimColumn(text, jsIndex))]
  /\ UNCHANGED <<cache, lastCall, pipe, bvars, qvars, lvars, kvars>>

\* ranges whose matchText is as long as a threshold, or one longer, or empty
Run(n) == [i \in 1..n |-> "a"]
Sizes ==
  {n \in 0..MaxMatch :
     \/ n = 0
     \/ \E t \in {DefaultThresholds.tiny, DefaultThresholds.small, DefaultThresholds.medium} :
          n \in {t, t + 1}}
SizedRanges == {Span(1, Run(n), 0, n, "added") : n \in Sizes}

\* evaluateChangeSize and selectDisplayStrategy with their default
\* thresholds and strategies, for two lists of ranges
ProbeSelectDisplayStrategy(ranges, more) ==
  /\ probe' = [fn |-> "selectDisplayStrategy", ranges |-> ranges, more |-> more,
               out |-> SelectDisplayStrategy(EvaluateChangeSize(ranges, DefaultThresholds),
                                             DefaultStrategies),
               outMore |-> SelectDisplayStrategy(EvaluateChangeSize(more, DefaultThresholds),
                                                 DefaultStrategies)]
  /\ UNCHANGED <<cache, lastCall, pipe, bvars, qvars, lvars, kvars>>

InitF ==
  /\ cache = <<>>
  /\ lastCall = NoCall
  /\ pipe = NoPipe
  /\ InitB
  /\ probe = NoProbe

InitK ==
  /\ keys = <<>>
  /\ pos = HistLen
  /\ kinds = [e \in 1..HistLen |-> "ins"]
  /\ store = NoPair
  /\ consumed = <<>>
  /\ gHasRemovals = "nil"
  /\ enabled = [added |-> TRUE, removed |-> TRUE]
  /\ nfails = 0

\* any undo history with nothing undone yet, any setting of config.enabled
InitKey ==
  /\ InitQ
  /\ InitL
  /\ InitF
  /\ keys = <<>>
  /\ pos = HistLen
  /\ kinds \in [1..HistLen -> EditKinds]
  /\ store = NoPair
  /\ consumed = <<>>
  /\ gHasRemovals = "nil"
  /\ enabled \in [added : BOOLEAN, removed : BOOLEAN]
  /\ nfails = 0

\* ------------------------------------------------- the queue on its own --
NextQ ==
  \/ \E b \in Bufs : Enqueue(b)
  \/ \E c \in DOMAIN cmd : \E ok \in BOOLEAN : Settle(c, ok)
  \/ \E l \in DOMAIN loops : Resume(l)
  \/ \E l \in DOMAIN loops : LoopReturn(l)
  \/ \E b \in Bufs : ClearBuffer(b)
  \/ ClearAll
  \/ Tick

Init == InitQ /\ InitL /\ InitK /\ InitF

SpecQ == Init /\ [][NextQ]_vars

\* every action settles, and the event loop resumes the run-loop that awaits
\* it
StepQ ==
  \/ \E c \in DOMAIN cmd : \E ok \in BOOLEAN : Settle(c, ok)
  \/ \E l \in DOMAIN loops : Resume(l)
  \/ \E l \in DOMAIN loops : LoopReturn(l)

LiveQ == SpecQ /\ WF_vars(StepQ)

\* -------------------------------------------------- the lock on its own --
NextL ==
  \/ \E k \in LockKeys : Acquire(k)
  \/ \E a \in DOMAIN acq : Wake(a)
  \/ \E a \in DOMAIN acq : \E ok \in BOOLEAN : FnSettle(a, ok)
  \/ \E a \in DOMAIN acq : Release(a)

SpecL == Init /\ [][NextL]_vars

\* every action settles, and the event loop runs the continuations of the
\* promises that are resolved
StepL ==
  \/ \E a \in DOMAIN acq : Wake(a)
  \/ \E a \in DOMAIN acq : \E ok \in BOOLEAN : FnSettle(a, ok)
  \/ \E a \in DOMAIN acq : Release(a)

LiveL == SpecL /\ WF_vars(StepL)

\* ------------------------------------- the queue and the lock side by side --
\* (no clearBuffer, no clearAll, and the clock stands still)
NextQL ==
  \/ \E b \in Bufs : Enqueue(b)
  \/ \E c \in DOMAIN cmd : \E ok \in BOOLEAN : Settle(c, ok)
  \/ \E l \in DOMAIN loops : Resume(l)
  \/ \E k \in LockKeys : Acquire(k)
  \/ \E a \in DOMAIN acq : Wake(a)
  \/ \E a \in DOMAIN acq : \E ok \in BOOLEAN : FnSettle(a, ok)
  \/ \E a \in DOMAIN acq : Release(a)

SpecQL == Init /\ [][NextQL]_vars

\* ---------------------------------------------- the keystroke pipeline --

\* the steps of the plugin: every one is the continuation of a call the
\* event loop resumes when the call it awaits has settled
StepK ==
  \/ \E k \in DOMAIN keys : \E ok \in BOOLEAN : PreBufnr(k, ok)
  \/ \E k \in DOMAIN keys : \E ok \in BOOLEAN : PreCond(k, ok)
  \/ \E k \in DOMAIN keys : \E ok \in BOOLEAN : PreGet1(k, ok)
  \/ \E k \in DOMAIN keys : \E ok \in BOOLEAN : PreCmd(k, ok)
  \/ \E k \in DOMAIN keys : \E ok \in BOOLEAN : PreGet2(k, ok)
  \/ \E k \in DOMAIN keys : \E ok, fits \in BOOLEAN : PreCounter(k, ok, fits)
  \/ \E k \in DOMAIN keys : \E ok \in BOOLEAN : PreSetVar(k, ok)
  \/ \E k \in DOMAIN keys : \E ok \in BOOLEAN : ExecBufnr(k, ok)
  \/ \E k \in DOMAIN keys : LuaExecReturn(k)
  \/ \E k \in DOMAIN keys : \E ok, filled \in BOOLEAN : ExPre(k, ok, filled)
  \/ \E k \in DOMAIN keys : \E ok \in BOOLEAN : ExCmdOnly(k, ok)
  \/ \E k \in DOMAIN keys : \E ok \in BOOLEAN : ExRApply(k, ok)
  \/ \E k \in DOMAIN keys : ExRWait(k)
  \/ \E k \in DOMAIN keys : \E ok \in BOOLEAN : ExRCmd(k, ok)
  \/ \E k \in DOMAIN keys : \E ok \in BOOLEAN : ExRClear(k, ok)
  \/ \E k \in DOMAIN keys : \E ok \in BOOLEAN : ExACmd(k, ok)
  \/ \E k \in DOMAIN keys : \E ok \in BOOLEAN : ExHApply(k, ok)
  \/ \E k \in DOMAIN keys : ExHWait(k)
  \/ \E k \in DOMAIN keys : \E ok \in BOOLEAN : ExHClear(k, ok)
  \/ \E l \in DOMAIN loops : Resume(l)

NextK ==
  \/ \E command \in Commands : KeyPress(command)
  \/ StepK

SpecK == InitKey /\ [][NextK]_vars

\* every call the plugin awaits settles, and the event loop then resumes the
\* continuation
LiveK == SpecK /\ WF_vars(StepK)

\* ------------------------------------------- the optimizer on its own --
NextD ==
  \/ \E before, after \in Texts : \E threshold \in Thresholds :
       CalculateDiff(before, after, threshold)
  \/ ClearCache

SpecD == Init /\ [][NextD]_vars

\* -------------------------------------------- the range pipeline on its own --
NextR ==
  \/ \E before, after \in Codes : PipeCalculateDiff(before, after)
  \/ \E changeType \in ChangeTypes : PipeComputeRanges(changeType)
  \/ PipeFillRangeGaps
  \/ \E config \in Configs : PipeApplyRangeAdjustments(config)

SpecR == Init /\ [][NextR]_vars

\* ------------------------------------------ the state store on its own --
NextB ==
  \/ \E bufnr \in StoreBufs : \E preCode \in PreCodes : \E postCode \in PostCodes :
       \E dt \in {0, 1} : BufferSet(bufnr, preCode, postCode, dt)
  \/ \E bufnr \in StoreBufs : \E dt \in {0, 1} : BufferGet(bufnr, dt)
  \/ \E bufnr \in StoreBufs : BufferClear(bufnr)
  \/ BufferClearAll

SpecB == Init /\ [][NextB]_vars

\* --------------------------------------- the range functions on their own --
NextP ==
  \/ /\ probe.fn = "none"
     /\ \E ranges \in ListsOver(LineRanges, MaxRanges) :
          \E aboveLine, belowLine \in 1..MaxLnum :
            ProbeFillRangeGaps(ranges, aboveLine, belowLine)
  \/ /\ probe.fn = "none"
     /\ \E ranges \in ListsOver(OverlapRanges, MaxRanges) :
          ProbeMergeOverlappingRanges(ranges)
  \/ /\ probe.fn = "none"
     /\ \E lineText \in WordLines : \E start, end \in 0..Len(lineText) :
          /\ start <= end
          /\ ProbeAdjustWordBoundaries(<<Span(1, lineText, start, end, "added")>>)
  \/ /\ probe.fn = "none"
     /\ \E ranges \in ListsOver(LineRanges, MaxRanges) :
          ProbeApplyHeuristicStrategy(ranges, BlockAlways)
  \/ /\ probe.fn = "none"
     /\ \E text \in EncodedTexts : \E jsIndex \in 0..Len(text) :
          ProbeRoundTrip(text, jsIndex)
  \/ /\ probe.fn = "none"
     /\ \E ranges, more \in ListsOver(SizedRanges, MaxRanges) :
          ProbeSelectDisplayStrategy(ranges, more)

SpecP == Init /\ [][NextP]_vars

\* ================================================================ claims ==

Cmds == DOMAIN cmd
Executing(b) == {c \in Cmds : cmd[c].bufnr = b /\ cmd[c].status = "running"}
Begun(c) == cmd[c].status \in {"running", "done", "failed"}

\* C1: for a buffer that only ever saw enqueue calls, at most one of its
\* actions is executing at any time, its actions begin in the order they were
\* enqueued (command ids are handed out in enqueue order), and none begins
\* while an earlier one is still waiting in the queue.
C1_FifoOneAtATime ==
  \A b \in Bufs :
    ~clearedEver[b] =>
      /\ Cardinality(Executing(b)) <= 1
      /\ \A i, j \in DOMAIN started :
           (i < j /\ cmd[started[i]].bufnr = b /\ cmd[started[j]].bufnr = b)
             => /\ started[i] < started[j]
                /\ (Begun(started[j]) /\ cmd[started[j]].status = "running")
                     => cmd[started[i]].status \in {"done", "failed"}
      /\ \A c, d \in Cmds :
           (cmd[c].bufnr = b /\ cmd[d].bufnr = b /\ c < d /\ Begun(d))
             => cmd[c].status # "queued"

\* C1 witness: on a buffer that was never cleared, an action that was
\* enqueued while another was running has begun, after the earlier settled.
C1_Witness ==
  \E b \in Bufs : \E c, d \in Cmds :
    /\ ~clearedEver[b]
    /\ cmd[c].bufnr = b /\ cmd[d].bufnr = b /\ c < d
    /\ cmd[c].status \in {"done", "failed"}
    /\ cmd[d].loop = 0
    /\ cmd[d].status = "running"

\* C2 (as claimed): at most one action acquired under a key is executing.
C2_MutualExclusion ==
  \A k \in LockKeys :
    Cardinality({a \in DOMAIN acq : acq[a].key = k /\ acq[a].pc = "running"}) <= 1

\* C3 (as claimed): an action that was enqueued and not yet begun when
\* clearBuffer/clearAll was called for its buffer is never executed.
C3_ClearedNeverRuns ==
  \A c \in Cmds : cmd[c].pendingAtClear => ~Begun(c)

ActiveLoops == {l \in DOMAIN loops : loops[l].pc = "awaitCmd"}
InSeq(x, sq) == \E i \in DOMAIN sq : sq[i] = x

\* C3 (amended): clearBuffer drops nothing a run-loop holds.  An action that
\* was pending when its buffer was cleared, and has not been dequeued since,
\* is still in the array of a run-loop that is draining the buffer, behind
\* the action that loop is awaiting.
C3_ClearedStaysScheduled ==
  \A c \in Cmds :
    (cmd[c].pendingAtClear /\ cmd[c].status = "queued")
      => \E l \in ActiveLoops :
           /\ loops[l].buf = cmd[c].bufnr
           /\ loops[l].q # 0
           /\ InSeq(c, arr[loops[l].q])

\* C3 witness: an action that was pending when its buffer was cleared has
\* been executed by the run-loop.
C3_Witness ==
  \E c \in Cmds : cmd[c].pendingAtClear /\ cmd[c].status = "done"


\* ------------------------------------------------- keystroke processing --

Keys == DOMAIN keys

\* the processing of key k is over: the Lua handler returned or was aborted
\* and the queued action, if there is one, has finished
KeyEnded(k) ==
  /\ keys[k].lua = "done"
  /\ keys[k].pre \in {"resolved", "rejected"}
  /\ keys[k].ex \in {"none", "enqueued", "rejected"}
  /\ keys[k].ex = "none" => keys[k].pre = "rejected"
  /\ keys[k].ex = "enqueued" => keys[k].xpc = "done"

Issued(k) == InSeq("cmd", keys[k].log)

\* every y in the log comes after some x
Precedes(x, y, log) ==
  \A j \in DOMAIN log : log[j] = y => \E i \in 1..(j - 1) : log[i] = x

\* C4 (as claimed): whenever an editor call fails during the processing of a
\* keystroke, in the snapshot capture, in the undo-tree precondition query,
\* in the highlight apply or in the highlight clear, the undo/redo command
\* of that keystroke is still issued.
C4_CommandStillIssued ==
  \A k \in Keys :
    (KeyEnded(k) /\ keys[k].fails \cap {"capture", "precond", "apply", "clear"} # {})
      => Issued(k)

\* C5 (as claimed): execute() never rejects; whatever fails inside it is
\* handed to the error handler.
C5_ExecuteNeverRejects ==
  \A k \in Keys : keys[k].c # 0 => cmd[keys[k].c].status # "failed"

ConsumedOf(k) == {i \in DOMAIN consumed : consumed[i].pair.by = k}

InCapture(k) == keys[k].pre \in {"cond", "get1", "cmd", "get2", "counter"}

Took(k) == keys[k].st # NoPair /\ ~DiffIsNull(keys[k].st)
Clean(k) == keys[k].xpc = "done" /\ keys[k].fails = {}

\* C8: for a change with removals, removals enabled and at least one removed
\* range left by fillRangeGaps, the removed ranges are applied strictly
\* before the command is issued and the command strictly before the
\* highlights are cleared.
C8_RemovalOrder ==
  \A k \in Keys :
    (Took(k) /\ HasRemovals(keys[k].st) /\ enabled.removed /\ keys[k].filled)
      => /\ Precedes("applyRemoved", "cmd", keys[k].log)
         /\ Precedes("cmd", "clear", keys[k].log)
         /\ Clean(k) => /\ InSeq("applyRemoved", keys[k].log)
                        /\ InSeq("cmd", keys[k].log)
                        /\ InSeq("clear", keys[k].log)

C8_Witness ==
  \E k \in Keys :
    /\ Took(k) /\ HasRemovals(keys[k].st) /\ ~HasAdditions(keys[k].st)
    /\ enabled.removed /\ keys[k].filled /\ Clean(k)
    /\ keys[k].log = <<"applyRemoved", "wait", "cmd", "clear">>

\* C9: for a change with additions and no removals, additions enabled, the
\* command is issued strictly before the added ranges are applied, and the
\* highlights are cleared only after the duration has elapsed since they
\* were applied.
C9_AdditionOrder ==
  \A k \in Keys :
    (Took(k) /\ ~HasRemovals(keys[k].st) /\ HasAdditions(keys[k].st) /\ enabled.added)
      => /\ Precedes("cmd", "applyAdded", keys[k].log)
         /\ Precedes("applyAdded", "wait", keys[k].log)
         /\ Precedes("wait", "clear", keys[k].log)
         /\ (Clean(k) /\ keys[k].filled)
              => keys[k].log = <<"cmd", "applyAdded", "wait", "clear">>

C9_Witness ==
  \E k \in Keys :
    /\ Took(k) /\ ~HasRemovals(keys[k].st) /\ HasAdditions(keys[k].st)
    /\ enabled.added /\ keys[k].filled /\ Clean(k)
    /\ keys[k].log = <<"cmd", "applyAdded", "wait", "clear">>

Replacement(k) ==
  /\ Took(k)
  /\ HasRemovals(keys[k].st) /\ HasAdditions(keys[k].st)
  /\ enabled.removed /\ enabled.added
  /\ keys[k].filled

PreHeld(k) == keys[k].flow \notin {"none", "noPre", "rejected"}

\* C11: if the history precondition holds and no snapshot pair is stored for
\* the buffer, or the diff engine returns null for the pair, execute() issues
\* the raw undo/redo command exactly once and makes no highlight-apply and no
\* highlight-clear call.
C11_RawCommandOnly ==
  \A k \in Keys :
    (PreHeld(k) /\ (keys[k].st = NoPair \/ DiffIsNull(keys[k].st)))
      => /\ keys[k].log \in {<<>>, <<"cmd">>}
         /\ keys[k].xpc = "done" => keys[k].log = <<"cmd">>

C11_Witness ==
  \E k, j \in Keys :
    /\ PreHeld(k) /\ keys[k].st = NoPair /\ keys[k].xpc = "done"
    /\ keys[k].log = <<"cmd">>
    /\ PreHeld(j) /\ keys[j].st # NoPair /\ DiffIsNull(keys[j].st) /\ keys[j].xpc = "done"
    /\ keys[j].log = <<"cmd">>

\* C12 (as claimed): every exec request accepted for a buffer while the
\* history precondition holds eventually has its undo/redo command issued.
C12_CommandEventuallyIssued ==
  \A k \in 1..MaxKeys :
    (k \in Keys /\ keys[k].ex = "enqueued" /\ keys[k].xpc = "pre"
       /\ Precondition(pos, keys[k].command))
      ~> (k \in Keys /\ Issued(k))

\* -------------------------------------------------------------- the queue --

Dequeued(c) == cmd[c].dequeuedBy # 0
Residency(c) == cmd[c].dequeuedAt - cmd[c].timestamp

\* nothing is left unattended in the array of activation l: it is empty, or
\* an activation that holds it awaits an action and will take the next entry
Attended(l) ==
  \/ loops[l].q = 0
  \/ arr[loops[l].q] = <<>>
  \/ \E m \in ActiveLoops : loops[m].q = loops[l].q

\* C13: an action that has been in a buffer's queue for more than 5 seconds
\* at the moment it is dequeued is never executed, and the run-loop that
\* dequeued it continues with the next queued action: no entry of its array
\* is left behind.
C13_StaleSkipped ==
  \A c \in Cmds :
    (Dequeued(c) /\ Residency(c) > StaleMs)
      => /\ ~Begun(c)
         /\ Attended(cmd[c].dequeuedBy)

C13_Witness ==
  \E c, d \in Cmds :
    /\ c < d
    /\ cmd[c].bufnr = cmd[d].bufnr
    /\ Dequeued(c) /\ Residency(c) > StaleMs /\ cmd[c].status = "skipped"
    /\ cmd[d].dequeuedBy = cmd[c].dequeuedBy
    /\ cmd[d].dequeuedAt = cmd[c].dequeuedAt
    /\ cmd[d].status = "running"

SameBuf(c, d) == c \in Cmds /\ d \in Cmds /\ c < d /\ cmd[c].bufnr = cmd[d].bufnr

\* action d waits in the queue and an action queued before it for the same
\* buffer has thrown or rejected
QueuedAfterFailed(d) ==
  /\ d \in Cmds
  /\ cmd[d].status = "queued"
  /\ \E c \in Cmds : SameBuf(c, d) /\ cmd[c].status = "failed"

C15_WaitsOnlyForOwn ==
  /\ \A d \in Cmds :
       cmd[d].status = "queued"
         => \E l \in ActiveLoops :
              /\ loops[l].buf = cmd[d].bufnr
              /\ cmd[loops[l].cmd].bufnr = cmd[d].bufnr
              /\ loops[l].q # 0 /\ InSeq(d, arr[loops[l].q])
  /\ \A a \in DOMAIN acq :
       acq[a].pc = "waiting" => acq[acq[a].waitOn].key = acq[a].key

\* an action of each buffer runs, the later one started while the earlier
\* was suspended; likewise for the two keys
C15_Witness ==
  /\ \E c, d \in Cmds :
       /\ c < d /\ cmd[c].bufnr # cmd[d].bufnr
       /\ cmd[c].status = "running" /\ cmd[d].status = "running"
  /\ \E a, b \in DOMAIN acq :
       /\ a < b /\ acq[a].key # acq[b].key
       /\ acq[a].pc = "running" /\ acq[b].pc = "running"

\* C16 (as claimed): the promise returned by enqueue(b, action) resolves only
\* after that action has finished executing or has been skipped as stale,
\* whether or not a run-loop was already draining b.
C16_ResolvesAfterFinished ==
  \A c \in Cmds :
    EnqueueResolved(c) => cmd[c].status \in {"done", "failed", "skipped"}

\* ------------------------------------------------ the diff optimizer --
Called == lastCall.fn = "calculateDiff"

\* C17: whenever calculateDiff was called with two different texts whose
\* lengths differ by more than threshold.char, or whose line counts differ by
\* more than threshold.line, it returned null, whatever the cache held.
C17_OverThresholdIsNull ==
  (/\ Called
   /\ lastCall.before # lastCall.after
   /\ OverThreshold(lastCall.before, lastCall.after, lastCall.threshold))
    => lastCall.result.null

\* the text a script spells: of "before" by its segments that are not added,
\* of "after" by its segments that are not removed
RECURSIVE Spell(_, _)
Spell(changes, side) ==
  IF changes = <<>> THEN <<>>
  ELSE LET ch == Head(changes)
           kept == IF side = "before" THEN ~ch.added ELSE ~ch.removed
       IN (IF kept THEN ch.value ELSE <<>>) \o Spell(Tail(changes), side)

IsEditScript(changes, before, after) ==
  /\ Spell(changes, "before") = before
  /\ Spell(changes, "after") = after

\* C18: every non-null result of calculateDiff(before, after, t) is an edit
\* script from before to after: its segments that are not added spell before,
\* its segments that are not removed spell after. A result read from the cache
\* is therefore the result of this very pair.
C18_ResultIsEditScript ==
  (Called /\ ~lastCall.result.null)
    => IsEditScript(lastCall.result.changes, lastCall.before, lastCall.after)

\* the ranges computeRanges derives from the last result
RangesOf(changeType) ==
  LET ranges == ComputeRanges(lastCall.result.changes, lastCall.before, lastCall.after,
                              changeType)
  IN {ranges[i] : i \in DOMAIN ranges}

\* C19: for every non-null result of calculateDiff, from a fast path or from
\* the general case, every range computeRanges derives from its segments (the
\* removed ranges against the before text, the added ranges against the after
\* text) lies on a line from lineInfo.aboveLine to lineInfo.belowLine.
C19_RangesWithinLineInfo ==
  (Called /\ ~lastCall.result.null)
    => \A changeType \in ChangeTypes : \A range \in RangesOf(changeType) :
         /\ lastCall.result.lineInfo.aboveLine <= range.lnum
         /\ range.lnum <= lastCall.result.lineInfo.belowLine

\* ------------------------------------------------ the range pipeline --
Consistent(range) ==
  range.matchText = Substring(range.lineText, range.col.start, range.col.end)

\* C20: every range that leaves the pipeline, fillRangeGaps followed by
\* applyRangeAdjustments, has the text of its columns as its matchText:
\* matchText = lineText.substring(col.start, col.end).
C20_MatchTextIsSpan ==
  pipe.stage = "adjusted" => \A i \in DOMAIN pipe.ranges : Consistent(pipe.ranges[i])

\* ---------------------------------------------------------------- C23 ..
\* the entry of buffer b in the store s, and the total of the sizes of the
\* first k evicted buffers
EntryOf(s, b) == s.buffers[IndexOf(s.buffers, b)]
RECURSIVE EvictedSize(_, _)
EvictedSize(op, k) ==
  IF k = 0 THEN 0 ELSE EvictedSize(op, k - 1) + EntryOf(op.stored, op.evicted[k]).size

C24_GetAfterSet ==
  lastOp.fn = "set" =>
    GetOp(TheStore, lastOp.bufnr, clock).result
      = [null |-> FALSE, preCode |-> lastOp.preCode, postCode |-> lastOp.postCode]

\* the sum of preCode.length + postCode.length over the entries
RECURSIVE StoredSize(_)
StoredSize(bs) ==
  IF bs = <<>> THEN 0
  ELSE Len(Head(bs).preCode) + Len(Head(bs).postCode) + StoredSize(Tail(bs))

\* C25: after any sequence of set, get, clear and clearAll calls, cacheSize is
\* the sum of preCode.length + postCode.length over the stored entries and
\* bufferCount is the number of buffers that have an entry.
C25_StatsMatchStore ==
  /\ GetStats.cacheSize = StoredSize(buffers)
  /\ GetStats.bufferCount = Cardinality({buffers[i].bufnr : i \in DOMAIN buffers})

\* a set that overwrote the entry of its buffer and evicted another, with
\* something left in the store
C25_Witness ==
  /\ lastOp.fn = "set"
  /\ IndexOf(lastOp.stored.buffers, lastOp.bufnr) < Len(lastOp.stored.buffers)
  /\ lastOp.evicted # <<>>
  /\ buffers # <<>>
  /\ currentCacheSize > 0

OnBoundary(range, aboveLine, belowLine) == range.lnum = aboveLine \/ range.lnum = belowLine
Interior(range, aboveLine, belowLine) == aboveLine < range.lnum /\ range.lnum < belowLine
SameLine(o, range) ==
  o.lnum = range.lnum /\ o.lineText = range.lineText /\ o.changeType = range.changeType
Rel21(o, range) ==
  IF Interior(range, probe.aboveLine, probe.belowLine) /\ range.col.start = 0
  THEN SameLine(o, range) /\ o.col = [start |-> 0, end |-> Len(range.lineText)]
  ELSE o = range
Increasing(f) == \A i, j \in DOMAIN f : i < j => f[i] < f[j]
FillCalled == probe.fn = "fillRangeGaps"

\* C21: fillRangeGaps returns every range on aboveLine or on belowLine
\* unchanged, every range strictly between them that starts at column 0 as a
\* range of the same line spanning columns 0 to lineText.length, and every
\* other range strictly between them unchanged, all in the order they came in.
C21_FillsInteriorLines ==
  FillCalled =>
    \E f \in [DOMAIN probe.out -> DOMAIN probe.ranges] :
      /\ Increasing(f)
      /\ \A j \in DOMAIN probe.out : Rel21(probe.out[j], probe.ranges[f[j]])
      /\ \A i \in DOMAIN probe.ranges :
           (\/ OnBoundary(probe.ranges[i], probe.aboveLine, probe.belowLine)
            \/ Interior(probe.ranges[i], probe.aboveLine, probe.belowLine))
             => \E j \in DOMAIN probe.out : f[j] = i

\* a call with a range on a boundary line and a range at column 0 of a line
\* in between, which came back widened
C21_Witness ==
  /\ FillCalled
  /\ \E i \in DOMAIN probe.ranges :
       OnBoundary(probe.ranges[i], probe.aboveLine, probe.belowLine)
  /\ \E i \in DOMAIN probe.ranges :
       /\ Interior(probe.ranges[i], probe.aboveLine, probe.belowLine)
       /\ probe.ranges[i].col.start = 0
       /\ probe.ranges[i].col.end < Len(probe.ranges[i].lineText)
  /\ probe.out # probe.ranges

\* the ranges the call returned are exactly the ranges within the lines (by
\* the comparison of line numbers, or by the three cases of the code), in
\* their order, each on the line and with the text it came with
Within(range, compared) ==
  IF compared
  THEN ~(range.lnum < probe.aboveLine \/ range.lnum > probe.belowLine)
  ELSE \/ OnBoundary(range, probe.aboveLine, probe.belowLine)
       \/ Interior(range, probe.aboveLine, probe.belowLine)
KeptAre(compared) ==
  LET kept == SelectSeq(probe.ranges, LAMBDA r : Within(r, compared))
  IN /\ Len(probe.out) = Len(kept)
     /\ \A j \in DOMAIN probe.out :
          SameLine(probe.out[j], kept[j]) /\ probe.out[j].matchText = kept[j].matchText

MergeCalled == probe.fn = "mergeOverlappingRanges"
Starts == {probe.ranges[i].col.start : i \in DOMAIN probe.ranges}
Ends == {probe.ranges[i].col.end : i \in DOMAIN probe.ranges}
Lowest == CHOOSE m \in Starts : \A s \in Starts : m <= s
Highest == CHOOSE m \in Ends : \A e \in Ends : m >= e
\* the ranges are on one line, of one change type, and their spans touch or
\* overlap so that together they cover Lowest..Highest without a gap
OneChain ==
  /\ probe.ranges # <<>>
  /\ \A i, j \in DOMAIN probe.ranges : SameLine(probe.ranges[i], probe.ranges[j])
  /\ \A p \in Lowest..(Highest - 1) :
       \E i \in DOMAIN probe.ranges :
         probe.ranges[i].col.start <= p /\ p + 1 <= probe.ranges[i].col.end
\* the call returned one range: the union of the spans with the text of the line
MergedToUnion ==
  /\ Len(probe.out) = 1
  /\ SameLine(probe.out[1], probe.ranges[1])
  /\ probe.out[1].col = [start |-> Lowest, end |-> Highest]
  /\ probe.out[1].matchText = Substring(probe.ranges[1].lineText, Lowest, Highest)

WordCalled == probe.fn = "adjustWordBoundaries"

\* C28: adjustWordBoundaries is idempotent: applied to what it returned for a
\* range, it returns that unchanged.
C28_WordBoundariesIdempotent ==
  WordCalled => AdjustWordBoundaries(probe.out) = probe.out

\* C29: adjustWordBoundaries never shrinks a range: for a range with
\* 0 <= col.start <= col.end <= lineText.length the range it returns starts at
\* or before the start and ends at or after the end of the input.
C29_NeverShrinks ==
  WordCalled =>
    /\ Len(probe.out) = Len(probe.ranges)
    /\ \A i \in DOMAIN probe.ranges :
         /\ probe.out[i].col.start <= probe.ranges[i].col.start
         /\ probe.out[i].col.end >= probe.ranges[i].col.end

\* a range that came back longer at both ends
C29_Witness ==
  /\ WordCalled
  /\ probe.out[1].col.start < probe.ranges[1].col.start
  /\ probe.out[1].col.end > probe.ranges[1].col.end

\* ---------------------------------------------------- the block strategy --
BlockCalled == probe.fn = "applyHeuristicStrategy"
WholeLine(range) ==
  range.col = [start |-> 0, end |-> Len(range.lineText)] /\ range.matchText = range.lineText
\* curr continues the run of prev, the range before it in the list: it is of
\* the same change type and at most one line further down (on the same line,
\* on the next, or, in a list that is not in line order, on any earlier line)
Continues(prev, curr) ==
  prev.changeType = curr.changeType /\ curr.lnum - prev.lnum <= 1
\* the run of the range at i has two or more ranges
InLongerRun(i) ==
  \/ i > 1 /\ Continues(probe.ranges[i - 1], probe.ranges[i])
  \/ i < Len(probe.ranges) /\ Continues(probe.ranges[i], probe.ranges[i + 1])

\* C30 as claimed: under the block strategy every range of every run of
\* same-type ranges on adjacent lines comes back covering its whole line,
\* whatever the number of ranges in the run.
C30_EveryRunWholeLine ==
  BlockCalled =>
    /\ Len(probe.out) = Len(probe.ranges)
    /\ \A i \in DOMAIN probe.out :
         SameLine(probe.out[i], probe.ranges[i]) /\ WholeLine(probe.out[i])

\* C30 amended: every range of a run of two or more ranges comes back covering
\* its whole line; a range that is a run of its own comes back unchanged. A
\* run is made of consecutive ranges of one change type, each at most one line
\* below the one before it.
C30_LongerRunsWholeLine ==
  BlockCalled =>
    /\ Len(probe.out) = Len(probe.ranges)
    /\ \A i \in DOMAIN probe.out :
         IF InLongerRun(i)
         THEN SameLine(probe.out[i], probe.ranges[i]) /\ WholeLine(probe.out[i])
         ELSE probe.out[i] = probe.ranges[i]

\* two ranges of the same type on adjacent lines, both widened
C30_Witness ==
  /\ BlockCalled
  /\ Len(probe.ranges) = 2
  /\ probe.ranges[2].lnum = probe.ranges[1].lnum + 1
  /\ InLongerRun(1)
  /\ ~WholeLine(probe.ranges[1])
  /\ WholeLine(probe.out[1]) /\ WholeLine(probe.out[2])

\* C31: for every text, characters of several bytes and characters outside
\* the basic plane included, and every index from 0 to the length of the text
\* that is a character boundary, vimColumnToJsIndex(text,
\* jsIndexToVimColumn(text, index)) is the index
RoundTripCalled == probe.fn = "vimColumnToJsIndex"
C31_RoundTrip ==
  (RoundTripCalled /\ IsCharacterBoundary(probe.text, probe.jsIndex))
    => probe.out = probe.jsIndex

\* C32: isLocked(key) is true at every moment an action acquired under the
\* key is executing, and the key is absent from getLockedResources once no
\* acquire call on it is outstanding
OutstandingOn(k) == {a \in DOMAIN acq : acq[a].key = k /\ acq[a].pc # "done"}
ExecutingUnder(k) == {a \in DOMAIN acq : acq[a].key = k /\ acq[a].pc = "running"}
C32_IsLockedWhileExecuting ==
  \A k \in LockKeys :
    /\ ExecutingUnder(k) # {} => IsLocked(LS, k)
    /\ OutstandingOn(k) = {} => k \notin GetLockedResources(LS)

\* C33: the number of pending actions in one buffer's queue never exceeds a
\* fixed limit, however fast actions are enqueued.  enqueue holds no limit:
\* the queue of a buffer whose first action is still running grows by one
\* with every call, so a limit that is to hold has to be smaller than the
\* number of calls the callers make, and it is exceeded.
QueueLength(b) == IF queues[b] = 0 THEN 0 ELSE Len(arr[queues[b]])
C33_QueueBounded ==
  \A b \in Bufs : QueueLength(b) <= MaxCmds - 2

\* C34: for every string s and every threshold, calculateDiff(s, s,
\* threshold) returns null, whatever the cache contains
C34_SameTextIsNull ==
  (Called /\ lastCall.before = lastCall.after) => lastCall.result = Null

\* C34 witness: calculateDiff was called with one text twice while the cache
\* held a result under the key of that pair
C34_Witness ==
  /\ Called
  /\ lastCall.before = lastCall.after
  /\ CacheHas(cache, GetCacheKey(lastCall.before, lastCall.after))

\* C35: with the default thresholds and strategies,
\* selectDisplayStrategy(evaluateChangeSize(ranges)) is monotone in the total
\* length of the matchTexts, in the order character < word < line < block
StrategyCalled == probe.fn = "selectDisplayStrategy"
StrategyOrder == <<"character", "word", "line", "block">>
Rank(strategy) == CHOOSE i \in DOMAIN StrategyOrder : StrategyOrder[i] = strategy
C35_StrategyMonotone ==
  (StrategyCalled /\ TotalChars(probe.ranges) <= TotalChars(probe.more))
    => Rank(probe.out) <= Rank(probe.outMore)

\* C35 witness: two lists of two ranges, the second with more text, chosen
\* the word and the line strategy
C35_Witness ==
  /\ StrategyCalled
  /\ Len(probe.ranges) = 2 /\ Len(probe.more) = 2
  /\ TotalChars(probe.ranges) < TotalChars(probe.more)
  /\ probe.out = "word" /\ probe.outMore = "line"

\* C36: at most one run-loop drains a buffer's queue at any time, also when
\* clearBuffer or clearAll is called while an action of the buffer runs and
\* further actions are enqueued afterwards; no two actions of a buffer
\* execute at the same time; and the processing flag of a buffer is set
\* exactly while a run-loop for it is active
LoopsOf(b) == {l \in ActiveLoops : loops[l].buf = b}
C36_OneRunLoopPerBuffer ==
  \A b \in Bufs :
    /\ Cardinality(LoopsOf(b)) <= 1
    /\ Cardinality(Executing(b)) <= 1
    /\ IsProcessing(QS, b) <=> LoopsOf(b) # {}

\* C37: whenever execute() has applied highlights, it calls clearHighlights
\* for the buffer before it finishes, on every path, also when the undo/redo
\* command or another editor call fails after the highlights were applied
Applies == {"applyAdded", "applyRemoved"}
C37_ClearsWhatItApplied ==
  \A k \in DOMAIN keys :
    (keys[k].xpc = "done" /\ "apply" \notin keys[k].fails)
      => \A i \in DOMAIN keys[k].log :
           keys[k].log[i] \in Applies
             => \E j \in DOMAIN keys[k].log : j > i /\ keys[k].log[j] = "clear"

\* C38: snapshot capture has no net effect on the buffer: whenever
\* getPreCodeAndPostCode returns or throws, every `silent command` it
\* executed has been followed by a `silent counterCommand`; and when it
\* throws, it has stored no snapshot pair
Capturing == {"get1", "cmd", "get2", "counter"}
CaptureEnds(k) == keys[k].pre \in Capturing /\ keys'[k].pre \notin Capturing
C38_CaptureLeavesNoTrace ==
  [][\A k \in DOMAIN keys :
       CaptureEnds(k) =>
         /\ keys[k].pre \in {"get2", "counter"}
              => (keys[k].pre = "counter" /\ keys'[k].pre # "rejected")
         /\ keys'[k].pre = "rejected" => ~keys'[k].stored]_vars

\* C39: the lock is released on every exit of an action, also when the
\* action throws, so every acquire call on a key eventually runs its action,
\* given that the actions started earlier on the key terminate, with any
\* number of waiters
C39_EveryAcquireRuns ==
  /\ [](\A a \in DOMAIN acq : acq[a].pc = "done" => a \in resolved)
  /\ \A a \in 1..MaxAcq :
       (a \in DOMAIN acq) ~> (a \in DOMAIN acq /\ acq[a].pc # "waiting")

\* C39 witness: two calls that waited for the promise of one call, whose
\* action threw, have both run their actions
C39_Witness ==
  \E a, b \in DOMAIN acq :
    /\ a # b
    /\ acq[a].waitOn # 0 /\ acq[a].waitOn = acq[b].waitOn
    /\ acq[acq[a].waitOn].threw
    /\ acq[a].pc = "done" /\ acq[b].pc = "done"

\* C40: given that every action terminates, every enqueued action is
\* eventually dequeued (executed or skipped as stale) unless a clearBuffer or
\* clearAll removed it: whenever the queue of a buffer is not empty a
\* run-loop is draining it, also for an action enqueued when the run-loop
\* finishes its last action
C40_EveryActionDequeued ==
  /\ [](\A b \in Bufs :
         QueueLength(b) > 0
           => \E l \in ActiveLoops : loops[l].buf = b /\ loops[l].q = queues[b])
  /\ \A d \in 1..MaxCmds :
       (d \in Cmds) ~> (d \in Cmds /\ (cmd[d].status # "queued" \/ cmd[d].pendingAtClear))

\* C40 witness: an action that waited in the queue was dequeued by a
\* run-loop that the finally block of another run-loop started, and is done
C40_Witness ==
  \E d \in Cmds : \E l \in DOMAIN loops :
    /\ cmd[d].status = "done"
    /\ cmd[d].loop = 0
    /\ loops[l].child # 0
    /\ cmd[d].dequeuedBy = loops[l].child
====
